---------------------------- MODULE Spec2Model ----------------------------
(***************************************************************************)
(* Model of the OICA cemetery maintenance scripts:                         *)
(*   - fix_lot_status.py           the lot status reconciler               *)
(*   - update_plot_images.py       the filename parser, sort_images, the   *)
(*                                 folder scan and the plots.csv update    *)
(*   - match_orphaned_images.py    the naming-error detector and matcher   *)
(*   - cleanup_missing_images.py   removal of references to missing files  *)
(*   - verify_images.py            the report on image references          *)
(*   - fix_veteran_suffixes.py     the Suffix column of veterans.csv       *)
(*   - update_cremation_vault_status.py  the status of listed occupants  *)
(*   - validate_data.py            Check 1: available lots against lots    *)
(* Filenames are sequences of one-character strings; CSV fields that the   *)
(* code converts with int() are kept as text and converted by IntOfText.   *)
(***************************************************************************)
EXTENDS Integers, Sequences, FiniteSets, TLC

VARIABLES
    \* ---- data files used by fix_lot_status ----
    lots_csv,        \* rows of data/lots.csv
    occupants_csv,   \* rows of data/occupants.csv
    available_csv,   \* rows of data/available_lots.csv
    lots_backup,     \* data/lots.csv.backup: whether it exists, and its rows
    \* ---- one run of fix_lot_status ----
    pc,              \* position of the run
    dry_run,         \* the run's dry_run argument
    lots,            \* the in-memory list of lots
    changes,         \* the in-memory list of status changes
    runs,            \* number of runs started so far
    first_run,       \* history: the first completed apply run and what it left
    validation,      \* what validate_data read and what its Check 1 listed
    \* ---- filename functions ----
    filename,        \* the filename handed to the parser and the detector
    parsed,          \* result of parse_new_format_filename
    naming,          \* result of detect_naming_errors
    suggested,       \* result of extract_plot_from_filename
    \* ---- sort_images ----
    image_list,      \* argument of sort_images
    sorted_images,   \* its result
    \* ---- plots.csv, the image folders and the scripts that work on them ----
    plots_csv,       \* rows of data/plots.csv
    plots_backup,    \* data/plots.csv.backup
    image_files,     \* the files under "Monument Images": <<folder, name>>
    image_folders,   \* the folders that exist under "Monument Images"
    img_pc,          \* position of the running script
    argv,            \* the flags on its command line
    plot_rows,       \* its in-memory rows of plots.csv
    fixes,           \* files_to_rename and plots_to_update of apply_fixes
    new_images,      \* the dictionary scan_images returned
    report,          \* what verify_images counted
    run_log,         \* history: one entry per run of a script
    \* ---- fix_veteran_suffixes ----
    veterans_csv,    \* data/veterans.csv: its header and its rows of cells
    vet_runs,        \* number of runs of fix_veteran_suffixes so far
    \* ---- update_cremation_vault_status ----
    status_log       \* history: occupants.csv before and after each run

lotVars  == <<lots_csv, occupants_csv, available_csv, lots_backup, pc,
              dry_run, lots, changes, runs, first_run, validation>>
nameVars == <<filename, parsed, naming, suggested>>
sortVars == <<image_list, sorted_images>>
vetVars  == <<veterans_csv, vet_runs, status_log>>
imgVars  == <<plots_csv, plots_backup, image_files, image_folders, img_pc,
              argv, plot_rows, fixes, new_images, report, run_log>>
vars     == <<lots_csv, occupants_csv, available_csv, lots_backup, pc,
              dry_run, lots, changes, runs, first_run, validation,
              filename, parsed, naming, suggested, image_list, sorted_images, plots_csv, plots_backup,
              image_files, image_folders, img_pc, argv, plot_rows, fixes,
              new_images, report, run_log, veterans_csv, vet_runs, status_log>>

(***************************************************************************)
(* Characters                                                              *)
(***************************************************************************)
UpperLetters ==
    <<"A","B","C","D","E","F","G","H","I","J","K","L","M",
      "N","O","P","Q","R","S","T","U","V","W","X","Y","Z">>
LowerLetters ==
    <<"a","b","c","d","e","f","g","h","i","j","k","l","m",
      "n","o","p","q","r","s","t","u","v","w","x","y","z">>
Digits == <<"0","1","2","3","4","5","6","7","8","9">>

isupper(c) == \E i \in DOMAIN UpperLetters : UpperLetters[i] = c
islower(c) == \E i \in DOMAIN LowerLetters : LowerLetters[i] = c
isdigit(c) == \E i \in DOMAIN Digits : Digits[i] = c

\* str.upper() / str.lower() on one character
upperChar(c) ==
    IF islower(c)
    THEN UpperLetters[CHOOSE i \in DOMAIN LowerLetters : LowerLetters[i] = c]
    ELSE c
lowerChar(c) ==
    IF isupper(c)
    THEN LowerLetters[CHOOSE i \in DOMAIN UpperLetters : UpperLetters[i] = c]
    ELSE c
upper(s) == [i \in DOMAIN s |-> upperChar(s[i])]
lower(s) == [i \in DOMAIN s |-> lowerChar(s[i])]

\* int() of a run of decimal digits
DigitVal(c) == (CHOOSE i \in DOMAIN Digits : Digits[i] = c) - 1
RECURSIVE IntOfDigits(_)
IntOfDigits(ds) ==
    IF ds = <<>> THEN 0
    ELSE 10 * IntOfDigits(SubSeq(ds, 1, Len(ds) - 1)) + DigitVal(ds[Len(ds)])

\* number of consecutive decimal digits of s from position p on (a greedy \d+)
DigitRun(s, p) ==
    CHOOSE k \in 0..(Len(s) - p + 1) :
        /\ \A i \in p..(p + k - 1) : isdigit(s[i])
        /\ (p + k > Len(s) \/ ~isdigit(s[p + k]))

(***************************************************************************)
(* update_plot_images.py: parse_new_format_filename                        *)
(*   pattern = ^([A-Z]{2})([A-Z]?\d+)-(\d+)[a-z]*([FBPV])?\.jpe?g$         *)
(*   matched with re.IGNORECASE                                            *)
(***************************************************************************)
IMAGE_TYPE_LETTERS == {"F", "B", "P", "V"}

\* the character classes of the pattern; ic is the re.IGNORECASE flag
ClassAZ(c, ic)   == isupper(c) \/ (ic /\ islower(c))
Classaz(c, ic)   == islower(c) \/ (ic /\ isupper(c))
ClassFBPV(c, ic) == c \in IMAGE_TYPE_LETTERS \/ (ic /\ upperChar(c) \in IMAGE_TYPE_LETTERS)
Literal(c, l, ic) == c = l \/ (ic /\ lowerChar(c) = l)

\* \.jpe?g$ matched from position q of s to its end
ExtensionAt(s, q, ic) ==
    LET r == SubSeq(s, q, Len(s)) IN
    \/ /\ Len(r) = 4
       /\ r[1] = "."
       /\ Literal(r[2], "j", ic) /\ Literal(r[3], "p", ic) /\ Literal(r[4], "g", ic)
    \/ /\ Len(r) = 5
       /\ r[1] = "."
       /\ Literal(r[2], "j", ic) /\ Literal(r[3], "p", ic)
       /\ Literal(r[4], "e", ic) /\ Literal(r[5], "g", ic)

\* [a-z]*([FBPV])?\.jpe?g$ from position p: the greedy run gives back one
\* letter at a time, and at each length the optional group is tried first
\* with a letter and then empty; the first success is the match.
TailMatch(s, p, ic) ==
    LET L      == CHOOSE k \in 0..(Len(s) - p + 1) :
                      /\ \A i \in p..(p + k - 1) : Classaz(s[i], ic)
                      /\ (p + k > Len(s) \/ ~Classaz(s[p + k], ic))
        Try(k) == LET q == p + k IN
                  IF q <= Len(s) /\ ClassFBPV(s[q], ic) /\ ExtensionAt(s, q + 1, ic)
                  THEN [ok |-> TRUE, group4 |-> <<s[q]>>]
                  ELSE IF ExtensionAt(s, q, ic)
                  THEN [ok |-> TRUE, group4 |-> <<>>]
                  ELSE [ok |-> FALSE, group4 |-> <<>>]
        good   == {k \in 0..L : Try(k).ok}
    IN  IF good = {} THEN [ok |-> FALSE, group4 |-> <<>>]
        ELSE Try(CHOOSE k \in good : \A j \in good : j <= k)

\* re.match(pattern, filename, flags): the groups, or ok = FALSE
PatternMatch(s, ic) ==
    LET none == [ok |-> FALSE, group1 |-> <<>>, group2 |-> <<>>,
                 group3 |-> <<>>, group4 |-> <<>>]
    IN
    IF ~(Len(s) >= 2 /\ ClassAZ(s[1], ic) /\ ClassAZ(s[2], ic)) THEN none
    ELSE
    LET o  == IF Len(s) >= 3 /\ ClassAZ(s[3], ic) THEN 1 ELSE 0   \* [A-Z]?
        d1 == DigitRun(s, 3 + o)                            \* \d+
        pd == 3 + o + d1                                           \* the '-'
    IN
    IF ~(d1 >= 1 /\ pd <= Len(s) /\ s[pd] = "-") THEN none
    ELSE
    LET d2 == DigitRun(s, pd + 1)                           \* \d+
        t  == TailMatch(s, pd + 1 + d2, ic)
    IN
    IF ~(d2 >= 1 /\ t.ok) THEN none
    ELSE [ok |-> TRUE,
          group1 |-> SubSeq(s, 1, 2),
          group2 |-> SubSeq(s, 3, pd - 1),
          group3 |-> SubSeq(s, pd + 1, pd + d2),
          group4 |-> t.group4]

None == [matched |-> FALSE, yard_code |-> <<>>, plot_id |-> <<>>,
         lot_number |-> 0, image_type |-> <<>>]

\* what the function returns for a match object: yard_code, plot_suffix,
\* lot_number and image_type from the groups
ParseResult(match) ==
    IF ~match.ok THEN None
    ELSE [matched     |-> TRUE,
          yard_code   |-> upper(match.group1),
          plot_id     |-> upper(match.group1) \o upper(match.group2),
          lot_number  |-> IntOfDigits(match.group3),
          image_type  |-> IF match.group4 # <<>> THEN upper(match.group4) ELSE <<>>]

ParseWithFlags(fn, ic) == ParseResult(PatternMatch(fn, ic))

parse_new_format_filename_CaseSensitive(fn) == ParseWithFlags(fn, FALSE)
parse_new_format_filename_RawSuffix(fn) ==
    LET r == ParseWithFlags(fn, TRUE) IN
    IF r.matched
    THEN [r EXCEPT !.plot_id = r.yard_code \o PatternMatch(fn, TRUE).group2]
    ELSE r
parse_new_format_filename(fn) == ParseWithFlags(fn, TRUE)

(***************************************************************************)
(* match_orphaned_images.py: detect_naming_errors                          *)
(***************************************************************************)
Contains(s, c) == \E i \in DOMAIN s : s[i] = c

\* str.replace('.-', '-'): every occurrence, left to right
RECURSIVE ReplaceDotDash(_)
ReplaceDotDash(s) ==
    IF Len(s) < 2 THEN s
    ELSE IF s[1] = "." /\ s[2] = "-"
         THEN <<"-">> \o ReplaceDotDash(SubSeq(s, 3, Len(s)))
         ELSE <<s[1]>> \o ReplaceDotDash(Tail(s))

HasDotDash(s) == \E i \in 1..(Len(s) - 1) : s[i] = "." /\ s[i + 1] = "-"

\* filename.rsplit('.', 1): position of the last '.', 0 when there is none
LastDot(s) ==
    IF Contains(s, ".")
    THEN CHOOSE i \in DOMAIN s : s[i] = "." /\ \A j \in (i + 1)..Len(s) : s[j] # "."
    ELSE 0

\* the test of "Error 2"; the inner any(isupper) and any(islower) test included
MixedCaseExtension_AnyExt(ext) ==
    /\ \E i \in DOMAIN ext : isupper(ext[i])
    /\ \E i \in DOMAIN ext : islower(ext[i])
MixedCaseExtension(ext) ==
    /\ lower(ext) = <<"j", "p", "g">>
    /\ ext # <<"J", "P", "G">>
    /\ ext # <<"j", "p", "g">>
    /\ \E i \in DOMAIN ext : isupper(ext[i])
    /\ \E i \in DOMAIN ext : islower(ext[i])

\* re.match(r'^([A-Z]{2}[A-Z]\d+)(\d)', name): length of group 1, 0 if no match
MissingDashMatch(name) ==
    IF /\ Len(name) >= 5
       /\ isupper(name[1]) /\ isupper(name[2]) /\ isupper(name[3])
       /\ DigitRun(name, 4) >= 2
    THEN 3 + DigitRun(name, 4) - 1
    ELSE 0

\* f"{group1}-{group2}{name[len(group1)+1:]}.{ext}"
MissingDashFix_KeepDigit(name, ext, g1) ==
    SubSeq(name, 1, g1) \o <<"-">> \o <<name[g1 + 1]>>
        \o SubSeq(name, g1 + 1, Len(name)) \o <<".">> \o ext
MissingDashFix(name, ext, g1) ==
    SubSeq(name, 1, g1) \o <<"-">> \o <<name[g1 + 1]>>
        \o SubSeq(name, g1 + 2, Len(name)) \o <<".">> \o ext

NotCalled == [called |-> FALSE, raised |-> FALSE, has_error |-> FALSE,
              suggested |-> <<>>, errors |-> <<>>]

\* a detector in which each later fix works on the result of the earlier ones
detect_naming_errors_Composed(fn) ==
    IF LastDot(fn) = 0
    THEN [called |-> TRUE, raised |-> TRUE, has_error |-> FALSE,
          suggested |-> <<>>, errors |-> <<>>]
    ELSE
    LET name == SubSeq(fn, 1, LastDot(fn) - 1)
        ext  == SubSeq(fn, LastDot(fn) + 1, Len(fn))
        e1   == HasDotDash(fn)
        e2   == MixedCaseExtension(ext)
        g1   == MissingDashMatch(name)
        e3   == g1 > 0 /\ ~Contains(name, "-")
        s1   == IF e1 THEN ReplaceDotDash(fn) ELSE fn
        s2   == IF e2 THEN SubSeq(s1, 1, LastDot(s1) - 1) \o <<".", "J", "P", "G">>
                ELSE s1
        s3   == IF e3 THEN MissingDashFix(name, SubSeq(s2, LastDot(s2) + 1, Len(s2)), g1)
                ELSE s2
        errors == (IF e1 THEN <<"Extra dot before dash">> ELSE <<>>)
               \o (IF e2 THEN <<"Mixed case extension">> ELSE <<>>)
               \o (IF e3 THEN <<"Missing dash after plot ID">> ELSE <<>>)
        has_error == Len(errors) > 0
    IN  [called |-> TRUE, raised |-> FALSE, has_error |-> has_error,
         suggested |-> IF has_error THEN s3 ELSE <<>>,
         errors |-> errors]

\* Returns (has_error, suggested_fix, errors); a filename without '.' makes
\* the unpacking of rsplit raise ValueError.
detect_naming_errors(fn) ==
    IF LastDot(fn) = 0
    THEN [called |-> TRUE, raised |-> TRUE, has_error |-> FALSE,
          suggested |-> <<>>, errors |-> <<>>]
    ELSE
    LET name == SubSeq(fn, 1, LastDot(fn) - 1)
        ext  == SubSeq(fn, LastDot(fn) + 1, Len(fn))
        e1   == HasDotDash(fn)
        e2   == MixedCaseExtension(ext)
        g1   == MissingDashMatch(name)
        e3   == g1 > 0 /\ ~Contains(name, "-")
        s1   == IF e1 THEN ReplaceDotDash(fn) ELSE fn
        s2   == IF e2 THEN name \o <<".", "J", "P", "G">> ELSE s1
        s3   == IF e3 THEN MissingDashFix(name, ext, g1) ELSE s2
        errors == (IF e1 THEN <<"Extra dot before dash">> ELSE <<>>)
               \o (IF e2 THEN <<"Mixed case extension">> ELSE <<>>)
               \o (IF e3 THEN <<"Missing dash after plot ID">> ELSE <<>>)
        has_error == Len(errors) > 0
    IN  [called |-> TRUE, raised |-> FALSE, has_error |-> has_error,
         suggested |-> IF has_error THEN s3 ELSE <<>>,
         errors |-> errors]

(***************************************************************************)
(* update_plot_images.py: sort_images                                      *)
(***************************************************************************)
\* IMAGE_TYPE_PRIORITY.get(img_type, 99)
IMAGE_TYPE_PRIORITY(t) ==
    CASE t = <<"F">> -> 1
      [] t = <<"B">> -> 2
      [] t = <<"P">> -> 3
      [] t = <<"V">> -> 4
      [] t = <<>>    -> 5
      [] OTHER       -> 99

\* get_sort_key, lines 66-75: the key of a parsed name, and the key given
\* to a name of the old format
SortKey(p, old_format) ==
    IF p.matched THEN <<-p.lot_number, IMAGE_TYPE_PRIORITY(p.image_type)>>
    ELSE old_format

get_sort_key_OldFirst(img) == SortKey(parse_new_format_filename(img), <<0, 0>>)
get_sort_key(img) == SortKey(parse_new_format_filename(img), <<0, 99>>)

\* tuple comparison of two sort keys
KeyLess(a, b) == a[1] < b[1] \/ (a[1] = b[1] /\ a[2] < b[2])

\* sorted(image_list, key=get_sort_key): a stable sort, as an insertion sort
\* that puts each element after the elements whose key is not greater
RECURSIVE InsertByKey(_, _)
InsertByKey(out, img) ==
    IF out = <<>> THEN <<img>>
    ELSE IF KeyLess(get_sort_key(img), get_sort_key(out[Len(out)]))
         THEN InsertByKey(SubSeq(out, 1, Len(out) - 1), img) \o <<out[Len(out)]>>
         ELSE out \o <<img>>

RECURSIVE sort_images(_)
sort_images(l) ==
    IF l = <<>> THEN <<>>
    ELSE InsertByKey(sort_images(SubSeq(l, 1, Len(l) - 1)), l[Len(l)])

(***************************************************************************)
(* fix_lot_status.py                                                       *)
(***************************************************************************)
KEEP_NOT_AVAILABLE == {"OYK1-L1", "UTB25-L1"}

\* int(text): the value when text is a run of decimal digits, else an error
IsIntText(t) == t # <<>> /\ \A i \in DOMAIN t : isdigit(t[i])
IntOfText(t) == IntOfDigits(t)

\* str(n) for n >= 0
RECURSIVE StrOfInt(_)
StrOfInt(n) ==
    IF n < 10 THEN <<Digits[n + 1]>>
    ELSE StrOfInt(n \div 10) \o <<Digits[(n % 10) + 1]>>

\* ','.join(str(n) for n in nums)
RECURSIVE JoinNumbers_Semicolon(_)
JoinNumbers_Semicolon(nums) ==
    IF nums = <<>> THEN <<>>
    ELSE IF Len(nums) = 1 THEN StrOfInt(nums[1])
    ELSE StrOfInt(nums[1]) \o <<";">> \o JoinNumbers_Semicolon(Tail(nums))
RECURSIVE JoinNumbers(_)
JoinNumbers(nums) ==
    IF nums = <<>> THEN <<>>
    ELSE IF Len(nums) = 1 THEN StrOfInt(nums[1])
    ELSE StrOfInt(nums[1]) \o <<",">> \o JoinNumbers(Tail(nums))

\* code points, for the ordering of str
CharCode(c) ==
    IF isdigit(c) THEN 48 + DigitVal(c)
    ELSE IF isupper(c) THEN 64 + (CHOOSE i \in DOMAIN UpperLetters : UpperLetters[i] = c)
    ELSE IF islower(c) THEN 96 + (CHOOSE i \in DOMAIN LowerLetters : LowerLetters[i] = c)
    ELSE IF c = "," THEN 44
    ELSE IF c = "-" THEN 45
    ELSE 46

\* a < b for two str values
RECURSIVE StrLess(_, _)
StrLess(a, b) ==
    IF b = <<>> THEN FALSE
    ELSE IF a = <<>> THEN TRUE
    ELSE IF a[1] # b[1] THEN CharCode(a[1]) < CharCode(b[1])
    ELSE StrLess(Tail(a), Tail(b))

\* sorted(list of int)
RECURSIVE SortedInts(_)
SortedInts(l) ==
    IF l = <<>> THEN <<>>
    ELSE LET m    == CHOOSE i \in DOMAIN l : \A j \in DOMAIN l : l[i] <= l[j]
             rest == [k \in 1..(Len(l) - 1) |-> IF k < m THEN l[k] ELSE l[k + 1]]
         IN  <<l[m]>> \o SortedInts(rest)

\* sorted(set of str)
RECURSIVE SortedStrs(_)
SortedStrs(S) ==
    IF S = {} THEN <<>>
    ELSE LET m == CHOOSE a \in S : \A b \in S : a = b \/ StrLess(a, b)
         IN  <<m>> \o SortedStrs(S \ {m})

\* len(occupants_by_lot.get(lot_id, [])): rows of the lot that are not Reserved
num_occupants(occs, lot_id) ==
    Cardinality({i \in DOMAIN occs :
                    occs[i].lot_id = lot_id /\ occs[i].status # "Reserved"})

\* the value of a field whose column lots.csv does not have: the key is not
\* in the row that csv.DictReader gives
NoColumn == <<"no column">>

\* int(lot.get(key, 0)): 0 when the row has no such key; int() raises
\* ValueError for a text that is no integer, the empty text included
RightsRaise_NoDefault(v) == ~IsIntText(v)
RightsRaise(v) == v # NoColumn /\ ~IsIntText(v)
Rights(v) == IF v = NoColumn THEN 0 ELSE IntOfText(v)

\* the if/elif chain of the analysis loop
new_status_NoOverride(lot, n) ==
    IF Rights(lot.purchased_rights) = 0 THEN "Available"
    ELSE IF n = 0 THEN "Unoccupied"
    ELSE IF Rights(lot.remaining_rights) > 0 THEN "Partially Occupied"
    ELSE "Fully Occupied"
new_status_NoOccupantCheck(lot, n) ==
    IF lot.lot_id \in KEEP_NOT_AVAILABLE THEN "Not Available"
    ELSE IF Rights(lot.purchased_rights) = 0 THEN "Available"
    ELSE IF Rights(lot.remaining_rights) > 0 THEN "Partially Occupied"
    ELSE "Fully Occupied"
new_status(lot, n) ==
    IF lot.lot_id \in KEEP_NOT_AVAILABLE THEN "Not Available"
    ELSE IF Rights(lot.purchased_rights) = 0 THEN "Available"
    ELSE IF n = 0 THEN "Unoccupied"
    ELSE IF Rights(lot.remaining_rights) > 0 THEN "Partially Occupied"
    ELSE "Fully Occupied"

\* the two int() calls at the top of the loop body raise for some lot
AnalysisRaises(ls) ==
    \E i \in DOMAIN ls : RightsRaise(ls[i].purchased_rights)
                         \/ RightsRaise(ls[i].remaining_rights)

\* the lots after the loop: status replaced where it differs
AnalysedLots_NoUpdate(ls, occs) == ls
AnalysedLots(ls, occs) ==
    [i \in DOMAIN ls |->
        [ls[i] EXCEPT !.status = new_status(ls[i], num_occupants(occs, ls[i].lot_id))]]

\* the elements of l at the positions in I, in order: a loop that appends
\* under a condition
Select(l, I) ==
    LET F[i \in 0..Len(l)] ==
            IF i = 0 THEN <<>>
            ELSE IF i \in I THEN F[i - 1] \o <<l[i]>> ELSE F[i - 1]
    IN  F[Len(l)]
\* the changes list built by the loop
AnalysedChanges(ls, occs) ==
    LET change(i) == [lot_id     |-> ls[i].lot_id,
                      old_status |-> ls[i].status,
                      new_status |-> new_status(ls[i], num_occupants(occs, ls[i].lot_id))]
        all == [i \in DOMAIN ls |-> change(i)]
    IN  Select(all, {i \in DOMAIN ls : all[i].old_status # all[i].new_status})

\* csv.DictReader keeps the cells a row has beyond the header under the key
\* None; csv.DictWriter (extrasaction='raise') raises ValueError for a row
\* with a key that is not a fieldname
HasExtraCells(lot) == lot.extra # <<>>
WriteRaises(ls) == \E i \in DOMAIN ls : HasExtraCells(ls[i])

\* writerows converts and writes row after row: the rows that reach the
\* opened (and so truncated) file are those before the first one that raises
WrittenLots(ls) ==
    IF WriteRaises(ls)
    THEN SubSeq(ls, 1, (CHOOSE i \in DOMAIN ls :
                            /\ HasExtraCells(ls[i])
                            /\ \A j \in 1..(i - 1) : ~HasExtraCells(ls[j])) - 1)
    ELSE ls

\* available_by_plot[plot_id], in file order
AvailableNumbers(ls, plot) ==
    LET rows == Select(ls, {i \in DOMAIN ls :
                        ls[i].status = "Available" /\ ls[i].plot_id = plot})
    IN  [i \in DOMAIN rows |-> IntOfText(rows[i].lot_number)]

\* int(lot['lot_number']) raises for an Available lot
AvailableRaises(ls) ==
    \E i \in DOMAIN ls : ls[i].status = "Available" /\ ~IsIntText(ls[i].lot_number)

\* the rows written to available_lots.csv
AvailableRows_Unsorted(ls) ==
    LET plots == {ls[i].plot_id : i \in {j \in DOMAIN ls : ls[j].status = "Available"}}
        keys  == SortedStrs(plots)
    IN  [k \in DOMAIN keys |->
            [plot_id |-> keys[k],
             lots_available |-> JoinNumbers(AvailableNumbers(ls, keys[k]))]]
AvailableRows(ls) ==
    LET plots == {ls[i].plot_id : i \in {j \in DOMAIN ls : ls[j].status = "Available"}}
        keys  == SortedStrs(plots)
    IN  [k \in DOMAIN keys |->
            [plot_id |-> keys[k],
             lots_available |-> JoinNumbers(SortedInts(AvailableNumbers(ls, keys[k])))]]

(***************************************************************************)
(* The monument_images field of plots.csv                                  *)
(***************************************************************************)
\* str.strip(): the text without its leading and trailing white space
isspace(c) == c \in {" ", "\t"}

RECURSIVE lstrip(_)
lstrip(s) ==
    IF s # <<>> /\ isspace(s[1]) THEN lstrip(Tail(s)) ELSE s

RECURSIVE rstrip(_)
rstrip(s) ==
    IF s # <<>> /\ isspace(s[Len(s)]) THEN rstrip(SubSeq(s, 1, Len(s) - 1)) ELSE s

strip(s) == rstrip(lstrip(s))

\* str.split(';'): the pieces between the semicolons, at least one piece
RECURSIVE split(_)
split(s) ==
    IF ~Contains(s, ";") THEN <<s>>
    ELSE LET i == CHOOSE k \in DOMAIN s :
                     s[k] = ";" /\ \A j \in 1..(k - 1) : s[j] # ";"
         IN  <<SubSeq(s, 1, i - 1)>> \o split(SubSeq(s, i + 1, Len(s)))

\* [img.strip() for img in pieces if img.strip()]
RECURSIVE StripNonEmpty(_)
StripNonEmpty(pieces) ==
    IF pieces = <<>> THEN <<>>
    ELSE (IF strip(pieces[1]) = <<>> THEN <<>> ELSE <<strip(pieces[1])>>)
             \o StripNonEmpty(Tail(pieces))

\* parse_images of verify_images.py and match_orphaned_images.py, and the
\* same list comprehension in cleanup_csv and update_plots_csv
parse_images(images_str) ==
    IF images_str = <<>> \/ strip(images_str) = <<>> THEN <<>>
    ELSE StripNonEmpty(split(images_str))

\* '; '.join(images)
RECURSIVE join(_)
join(images) ==
    IF images = <<>> THEN <<>>
    ELSE IF Len(images) = 1 THEN images[1]
    ELSE images[1] \o <<";", " ">> \o join(Tail(images))

\* filename[:2].upper() and plot_id[:2].upper()
Prefix(s) == upper(SubSeq(s, 1, IF Len(s) < 2 THEN Len(s) ELSE 2))

(***************************************************************************)
(* cleanup_missing_images.py                                               *)
(***************************************************************************)
ChurchYard   == "OICA Church Yard"
Intervale    == "OICA Intervale"
IntervaleTerrace == "OICA Intervale Terrace"
NewYard      == "OICA New Yard"
OldYard      == "OICA Old Yard"
UpperTerrace == "OICA Upper Terrace"

\* YARD_MAPPINGS of cleanup_missing_images.py: yard code to folder name
CLEANUP_YARD_MAPPINGS ==
    (<<"C", "Y">> :> ChurchYard) @@ (<<"I", "T">> :> Intervale)
        @@ (<<"N", "Y">> :> NewYard) @@ (<<"O", "Y">> :> OldYard)
        @@ (<<"U", "T">> :> UpperTerrace)

\* YARD_MAPPINGS.get(prefix, 'OICA Church Yard')
get_image_folder(fname) ==
    IF Prefix(fname) \in DOMAIN CLEANUP_YARD_MAPPINGS
    THEN CLEANUP_YARD_MAPPINGS[Prefix(fname)]
    ELSE ChurchYard

\* os.path.exists(os.path.join(folder, filename)); a file is the pair of its
\* folder under "Monument Images" and its name
check_image_exists(fname, files) == <<get_image_folder(fname), fname>> \in files

\* the images of a list that exist, and those that do not, in list order
RECURSIVE valid_images(_, _)
valid_images(images, files) ==
    IF images = <<>> THEN <<>>
    ELSE (IF check_image_exists(images[1], files) THEN <<images[1]>> ELSE <<>>)
             \o valid_images(Tail(images), files)

RECURSIVE removed_images(_, _)
removed_images(images, files) ==
    IF images = <<>> THEN <<>>
    ELSE (IF check_image_exists(images[1], files) THEN <<>> ELSE <<images[1]>>)
             \o removed_images(Tail(images), files)

\* lines 62-99: the row as the loop of cleanup_csv leaves it
CleanedRow(row, files) ==
    LET images == StripNonEmpty(split(strip(row.monument_images))) IN
    IF strip(row.monument_images) = <<>> \/ removed_images(images, files) = <<>>
    THEN row
    ELSE [row EXCEPT !.monument_images = join(valid_images(images, files))]

CleanedRows(rs, files) == [i \in DOMAIN rs |-> CleanedRow(rs[i], files)]

\* plots_modified: the rows that lost an image
ModifiedByCleanup(rs, files) ==
    { i \in DOMAIN rs :
        removed_images(parse_images(rs[i].monument_images), files) # <<>> }

\* every path check_image_exists probes during the run
ProbedByCleanup(rs) ==
    { <<get_image_folder(img), img>> :
        img \in UNION { { parse_images(rs[i].monument_images)[k] :
                            k \in DOMAIN parse_images(rs[i].monument_images) } :
                        i \in DOMAIN rs } }

(***************************************************************************)
(* verify_images.py                                                        *)
(***************************************************************************)
\* FOLDER_MAP of verify_images.py and of match_orphaned_images.py
FOLDER_MAP ==
    (<<"C", "Y">> :> ChurchYard) @@ (<<"I", "T">> :> IntervaleTerrace)
        @@ (<<"N", "Y">> :> NewYard) @@ (<<"O", "Y">> :> OldYard)
        @@ (<<"U", "T">> :> UpperTerrace)

\* Python's None as a section
NoSection == <<"None">>

get_section_prefix(plot_id) ==
    IF Len(plot_id) >= 2 THEN upper(SubSeq(plot_id, 1, 2)) ELSE NoSection

\* the <<plot_id, image>> pairs one plot adds to valid_images (valid = TRUE)
\* or to missing_images (valid = FALSE), lines 69-108
RECURSIVE VerifiedImages(_, _, _, _, _)
VerifiedImages(plot_id, images, files, folders, valid) ==
    LET section == get_section_prefix(plot_id) IN
    IF images = <<>> \/ section \notin DOMAIN FOLDER_MAP THEN <<>>
    ELSE LET exists == /\ FOLDER_MAP[section] \in folders
                       /\ <<FOLDER_MAP[section], images[1]>> \in files
         IN  (IF exists = valid THEN << <<plot_id, images[1]>> >> ELSE <<>>)
                 \o VerifiedImages(plot_id, Tail(images), files, folders, valid)

RECURSIVE VerifiedOfRows(_, _, _, _)
VerifiedOfRows(rs, files, folders, valid) ==
    IF rs = <<>> THEN <<>>
    ELSE VerifiedImages(rs[1].plot_id, parse_images(rs[1].monument_images),
                        files, folders, valid)
             \o VerifiedOfRows(Tail(rs), files, folders, valid)

\* lines 76-78: the plots with images whose section is not in FOLDER_MAP
RECURSIVE UnknownSections(_)
UnknownSections(rs) ==
    IF rs = <<>> THEN <<>>
    ELSE (IF /\ parse_images(rs[1].monument_images) # <<>>
             /\ get_section_prefix(rs[1].plot_id) \notin DOMAIN FOLDER_MAP
          THEN << <<rs[1].plot_id, get_section_prefix(rs[1].plot_id)>> >>
          ELSE <<>>)
             \o UnknownSections(Tail(rs))

RECURSIVE ImageCount(_)
ImageCount(rs) ==
    IF rs = <<>> THEN 0
    ELSE Len(parse_images(rs[1].monument_images)) + ImageCount(Tail(rs))

WithImages(rs) == { i \in DOMAIN rs : parse_images(rs[i].monument_images) # <<>> }

\* lines 157-176: one entry per section prefix met in plots.csv
SectionStats(rs) ==
    LET keys == { get_section_prefix(rs[i].plot_id) : i \in DOMAIN rs }
        of(k) == { i \in DOMAIN rs : get_section_prefix(rs[i].plot_id) = k }
    IN  [k \in keys |->
            [total       |-> Cardinality(of(k)),
             with_images |-> Cardinality(of(k) \cap WithImages(rs)),
             image_count |-> ImageCount(Select(rs, of(k)))]]

\* line 178: sorted() of keys that hold None next to a string raises TypeError
SummaryRaises(rs) ==
    /\ \E i \in DOMAIN rs : get_section_prefix(rs[i].plot_id) = NoSection
    /\ \E i \in DOMAIN rs : get_section_prefix(rs[i].plot_id) # NoSection

NoReport == [called |-> FALSE]

\* what verify_images counts and prints
verify_images(rs, files, folders) ==
    [called               |-> TRUE,
     total_plots          |-> Len(rs),
     plots_with_images    |-> Cardinality(WithImages(rs)),
     plots_without_images |-> Len(rs) - Cardinality(WithImages(rs)),
     total_image_refs     |-> ImageCount(rs),
     valid_images         |-> VerifiedOfRows(rs, files, folders, TRUE),
     missing_images       |-> VerifiedOfRows(rs, files, folders, FALSE),
     unknown_sections     |-> UnknownSections(rs),
     section_stats        |-> SectionStats(rs),
     raised               |-> SummaryRaises(rs)]

(***************************************************************************)
(* match_orphaned_images.py: find_orphaned_images and apply_fixes          *)
(***************************************************************************)
\* re.match(r'^([A-Z]{2}[A-Z]\d+)', name.upper()) on the name without its
\* extension; <<>> stands for None
extract_plot_from_filename_TwoLetters(fn) ==
    LET name == upper(IF LastDot(fn) = 0 THEN fn ELSE SubSeq(fn, 1, LastDot(fn) - 1))
        from == IF Len(name) >= 3 /\ isupper(name[3]) THEN 4 ELSE 3
    IN  IF /\ Len(name) >= from
           /\ isupper(name[1]) /\ isupper(name[2])
           /\ DigitRun(name, from) >= 1
        THEN SubSeq(name, 1, from - 1 + DigitRun(name, from))
        ELSE <<>>
extract_plot_from_filename(fn) ==
    LET name == upper(IF LastDot(fn) = 0 THEN fn ELSE SubSeq(fn, 1, LastDot(fn) - 1)) IN
    IF /\ Len(name) >= 4
       /\ isupper(name[1]) /\ isupper(name[2]) /\ isupper(name[3])
       /\ DigitRun(name, 4) >= 1
    THEN SubSeq(name, 1, 3 + DigitRun(name, 4))
    ELSE <<>>

\* the extensions find_orphaned_images takes for image files
ImageExtensions ==
    {<<"j", "p", "g">>, <<"j", "p", "e", "g">>, <<"p", "n", "g">>, <<"g", "i", "f">>}

\* img_path.suffix.lower() in ['.jpg', '.jpeg', '.png', '.gif']
IsImageFile(name) ==
    /\ LastDot(name) > 1
    /\ lower(SubSeq(name, LastDot(name) + 1, Len(name))) \in ImageExtensions

\* the section whose folder a file lies in, NoSection for a folder that is
\* no value of FOLDER_MAP
SectionOf(folder) ==
    IF \E k \in DOMAIN FOLDER_MAP : FOLDER_MAP[k] = folder
    THEN CHOOSE k \in DOMAIN FOLDER_MAP : FOLDER_MAP[k] = folder
    ELSE NoSection

\* referenced_images: (section of the plot, image) for every image of a row
ReferencedImages(rs) ==
    UNION { { <<get_section_prefix(rs[i].plot_id), parse_images(rs[i].monument_images)[k]>> :
                k \in DOMAIN parse_images(rs[i].monument_images) } :
            i \in DOMAIN rs }

PlotIds(rs) == { rs[i].plot_id : i \in DOMAIN rs }

\* lines 127-158: the entry of orphaned_matches for one orphaned file
OrphanedMatch(file, rs) ==
    LET n == detect_naming_errors(file[2])
        suggested_plot == extract_plot_from_filename(file[2])
        fixed_plot == IF n.has_error THEN extract_plot_from_filename(n.suggested)
                      ELSE <<>>
    IN  [section |-> SectionOf(file[1]), folder |-> file[1],
         current_filename |-> file[2],
         suggested_plot |-> suggested_plot,
         plot_exists |-> suggested_plot # <<>> /\ suggested_plot \in PlotIds(rs),
         has_naming_error |-> n.has_error,
         fixed_filename |-> n.suggested,
         fixed_plot |-> fixed_plot,
         fixed_plot_exists |-> fixed_plot # <<>> /\ fixed_plot \in PlotIds(rs)]

\* lines 117-158 for the files in the order the folders list them
RECURSIVE find_orphaned_images(_, _)
find_orphaned_images(listing, rs) ==
    IF listing = <<>> THEN <<>>
    ELSE (IF /\ IsImageFile(listing[1][2])
             /\ <<SectionOf(listing[1][1]), listing[1][2]>> \notin ReferencedImages(rs)
          THEN <<OrphanedMatch(listing[1], rs)>>
          ELSE <<>>)
             \o find_orphaned_images(Tail(listing), rs)

\* lines 242-261: the plot an orphaned file goes to, <<>> for none
TargetPlot(m) ==
    IF m.has_naming_error /\ m.fixed_plot_exists THEN m.fixed_plot
    ELSE IF m.plot_exists THEN m.suggested_plot
    ELSE <<>>

\* ... and the name it is entered under
FinalFilename(m) ==
    IF m.has_naming_error /\ m.fixed_plot_exists THEN m.fixed_filename
    ELSE m.current_filename

\* files_to_rename: the old path and the new name, in the order of the matches
RECURSIVE FilesToRename(_)
FilesToRename(matches) ==
    IF matches = <<>> THEN <<>>
    ELSE (IF matches[1].has_naming_error /\ matches[1].fixed_plot_exists
          THEN << [old_path |-> <<matches[1].folder, matches[1].current_filename>>,
                   new_name |-> matches[1].fixed_filename] >>
          ELSE <<>>)
             \o FilesToRename(Tail(matches))

\* plots_to_update[plot]: the names to add to one plot, in the order of the matches
RECURSIVE NamesFor(_, _)
NamesFor(plot, matches) ==
    IF matches = <<>> THEN <<>>
    ELSE (IF TargetPlot(matches[1]) = plot THEN <<FinalFilename(matches[1])>> ELSE <<>>)
             \o NamesFor(plot, Tail(matches))

PlotsToUpdate(matches) ==
    [plot \in { TargetPlot(matches[k]) : k \in DOMAIN matches } \ {<<>>} |->
        NamesFor(plot, matches)]

\* lines 302-311: shutil.move(old_path, old_path.parent / new_name) for each
\* entry in turn; a file already at the new path is replaced
RECURSIVE RenameFiles_KeepTarget(_, _)
RenameFiles_KeepTarget(files, renames) ==
    IF renames = <<>> THEN files
    ELSE LET new_path == <<renames[1].old_path[1], renames[1].new_name>> IN
         RenameFiles_KeepTarget(
             IF new_path \in files THEN files
             ELSE (files \ {renames[1].old_path}) \cup {new_path},
             Tail(renames))
RECURSIVE RenameFiles(_, _)
RenameFiles(files, renames) ==
    IF renames = <<>> THEN files
    ELSE RenameFiles((files \ {renames[1].old_path})
                         \cup { <<renames[1].old_path[1], renames[1].new_name>> },
                     Tail(renames))

\* list(dict.fromkeys(all_images)): the first occurrence of every name
RECURSIVE Deduplicated(_)
Deduplicated(l) ==
    IF l = <<>> THEN <<>>
    ELSE LET front == Deduplicated(SubSeq(l, 1, Len(l) - 1)) IN
         IF \E k \in DOMAIN front : front[k] = l[Len(l)] THEN front
         ELSE front \o <<l[Len(l)]>>

\* lines 324-334: the rows with the new names entered
UpdatedPlots_NoDedup(rs, updates) ==
    [i \in DOMAIN rs |->
        IF rs[i].plot_id \in DOMAIN updates
        THEN [rs[i] EXCEPT !.monument_images =
                 join(parse_images(rs[i].monument_images) \o updates[rs[i].plot_id])]
        ELSE rs[i]]
UpdatedPlots(rs, updates) ==
    [i \in DOMAIN rs |->
        IF rs[i].plot_id \in DOMAIN updates
        THEN [rs[i] EXCEPT !.monument_images =
                 join(Deduplicated(parse_images(rs[i].monument_images)
                                       \o updates[rs[i].plot_id]))]
        ELSE rs[i]]

(***************************************************************************)
(* update_plot_images.py: scan_images and update_plots_csv                 *)
(***************************************************************************)
\* YARD_MAPPINGS.items(), in the order of the dictionary
UPDATE_YARD_MAPPINGS ==
    << <<ChurchYard, <<"C", "Y">> >>, <<Intervale, <<"I", "T">> >>,
       <<NewYard, <<"N", "Y">> >>, <<OldYard, <<"O", "Y">> >>,
       <<UpperTerrace, <<"U", "T">> >> >>

\* position of a folder in YARD_MAPPINGS, 0 for a folder that is not in it
ScanRank(folder) ==
    IF \E i \in DOMAIN UPDATE_YARD_MAPPINGS : UPDATE_YARD_MAPPINGS[i][1] = folder
    THEN CHOOSE i \in DOMAIN UPDATE_YARD_MAPPINGS : UPDATE_YARD_MAPPINGS[i][1] = folder
    ELSE 0

\* lines 90-108: the files that are taken, in the order they are met; the
\* test on the extension passes whenever the pattern matches
\* lines 103-107: if parsed ... if yard == yard_code
IsScanned(parsed_name, yard_code) ==
    parsed_name.matched /\ parsed_name.yard_code = yard_code
ScannedFiles(listing) ==
    Select(listing, {i \in DOMAIN listing :
        IsScanned(parse_new_format_filename(listing[i][2]),
                  UPDATE_YARD_MAPPINGS[ScanRank(listing[i][1])][2])})

\* the plot of a file that is taken, and new_images[plot_id]: the names
\* found for the plot, in the order they were met
ScannedPlot(file) == parse_new_format_filename(file[2]).plot_id
ScannedNames(found, plot_id) ==
    LET names == [i \in DOMAIN found |-> found[i][2]]
    IN  Select(names, {i \in DOMAIN found : ScannedPlot(found[i]) = plot_id})

\* scan_images: the dictionary new_images
ScannedImages(found) ==
    [plot_id \in {ScannedPlot(found[i]) : i \in DOMAIN found} |->
        ScannedNames(found, plot_id)]
scan_images(listing) == ScannedImages(ScannedFiles(listing))

\* lines 151-158: the existing images, and after them every new image whose
\* lower-case name is not yet in existing_lower
combined_NoDedup(existing_list, new_imgs) == existing_list \o new_imgs
combined(existing_list, new_imgs) ==
    LET F[k \in 0..Len(new_imgs)] ==
            IF k = 0 THEN existing_list
            ELSE IF \E i \in DOMAIN F[k - 1] : lower(F[k - 1][i]) = lower(new_imgs[k])
                 THEN F[k - 1]
                 ELSE Append(F[k - 1], new_imgs[k])
    IN  F[Len(new_imgs)]

\* lines 144-163: existing and new_value of a row whose plot is in the
\* dictionary
existing(row) == strip(row.monument_images)
new_value_OnlyScanned(row, new_images_dict) ==
    join(sort_images(new_images_dict[row.plot_id]))
new_value(row, new_images_dict) ==
    join(sort_images(combined(StripNonEmpty(split(existing(row))),
                              new_images_dict[row.plot_id])))

\* lines 165-170: the row with the new value when it differs from existing
UpdatedRow(row, value) ==
    IF value # existing(row) THEN [row EXCEPT !.monument_images = value] ELSE row

\* update_plots_csv: the rows in memory after the loop, and its return value
update_plots_csv(rows, new_images_dict) ==
    [i \in DOMAIN rows |->
        IF rows[i].plot_id \in DOMAIN new_images_dict
        THEN UpdatedRow(rows[i], new_value(rows[i], new_images_dict))
        ELSE rows[i]]
updates_made(rows, new_images_dict) ==
    Cardinality({i \in DOMAIN rows :
        /\ rows[i].plot_id \in DOMAIN new_images_dict
        /\ new_value(rows[i], new_images_dict) # existing(rows[i])})

(***************************************************************************)
(* fix_veteran_suffixes.py                                                 *)
(***************************************************************************)
\* the alternatives Jr\.?|Sr\.?|II|III|IV|M\.?D\.?|Ph\.?D\.?|Capt\.?|Dr\.? of
\* line 21 and Jr\.?|Sr\.?|II|III|IV of line 22, in lower case: both patterns
\* are used with re.IGNORECASE
TrailingSuffixes ==
    { <<"j", "r">>, <<"j", "r", ".">>, <<"s", "r">>,
      <<"s", "r", ".">>, <<"i", "i">>, <<"i", "i", "i">>,
      <<"i", "v">>, <<"m", "d">>, <<"m", "d", ".">>,
      <<"m", ".", "d">>, <<"m", ".", "d", ".">>, <<"p", "h", "d">>,
      <<"p", "h", "d", ".">>, <<"p", "h", ".", "d">>, <<"p", "h", ".", "d", ".">>,
      <<"c", "a", "p", "t">>, <<"c", "a", "p", "t", ".">>, <<"d", "r">>,
      <<"d", "r", ".">> }
WholeSuffixes ==
    { <<"j", "r">>, <<"j", "r", ".">>, <<"s", "r">>,
      <<"s", "r", ".">>, <<"i", "i">>, <<"i", "i", "i">>,
      <<"i", "v">> }

\* position of the last white-space character of s, 0 when there is none
LastSpace(s) ==
    IF \E i \in DOMAIN s : isspace(s[i])
    THEN CHOOSE i \in DOMAIN s : isspace(s[i]) /\ \A j \in (i + 1)..Len(s) : ~isspace(s[j])
    ELSE 0

\* lines 9-44, the pair (middle_clean, suffix): line 21 matches white space
\* and a suffix at the end of the stripped field, re.sub removes that match
\* and the rest is stripped; line 22 matches a field that is a suffix and
\* nothing else. Lines 34-41 test the last part of the field against the
\* alternatives of line 21 once more and never find what line 21 has not.
parse_middle_and_suffix(middle_field) ==
    LET middle == strip(middle_field)
        k      == LastSpace(middle)
        last   == SubSeq(middle, k + 1, Len(middle))
    IN  IF middle = <<>> THEN << <<>>, <<>> >>
        ELSE IF k > 0 /\ lower(last) \in TrailingSuffixes
             THEN << strip(SubSeq(middle, 1, k)), last >>
        ELSE IF lower(middle) \in WholeSuffixes
             THEN << <<>>, middle >>
        ELSE << middle, <<>> >>

MiddleName == "Middle Name/Initial"

\* old_fieldnames.index('Middle Name/Initial') raises ValueError
SuffixRaises(fieldnames) == ~\E i \in DOMAIN fieldnames : fieldnames[i] = MiddleName

\* lines 59-61: 'Suffix' is put in after the first 'Middle Name/Initial'
new_fieldnames(fieldnames) ==
    LET middle_index == CHOOSE i \in DOMAIN fieldnames :
            fieldnames[i] = MiddleName /\ \A j \in 1..(i - 1) : fieldnames[j] # MiddleName
    IN  SubSeq(fieldnames, 1, middle_index) \o <<"Suffix">>
            \o SubSeq(fieldnames, middle_index + 1, Len(fieldnames))

\* the value csv.DictReader gives a row under a column name: that of the last
\* column of that name
CellOf(fieldnames, cells, name) ==
    cells[CHOOSE i \in DOMAIN fieldnames :
            fieldnames[i] = name /\ \A j \in (i + 1)..Len(fieldnames) : fieldnames[j] # name]

\* lines 66-72 and 95-97: the cells csv.DictWriter writes for one record, one
\* per name of the new header
FixedCells(fieldnames, cells) ==
    LET parsed_middle == parse_middle_and_suffix(CellOf(fieldnames, cells, MiddleName))
        header        == new_fieldnames(fieldnames)
    IN  [k \in DOMAIN header |->
            IF header[k] = MiddleName THEN parsed_middle[1]
            ELSE IF header[k] = "Suffix" THEN parsed_middle[2]
            ELSE CellOf(fieldnames, cells, header[k])]

\* the file the script writes
FixedVeterans(file) ==
    [fieldnames |-> new_fieldnames(file.fieldnames),
     rows       |-> [r \in DOMAIN file.rows |-> FixedCells(file.fieldnames, file.rows[r])]]

(***************************************************************************)
(* validate_data.py: Check 1                                               *)
(***************************************************************************)
\* str.split(','): the pieces between the commas, at least one piece
RECURSIVE SplitCommas(_)
SplitCommas(s) ==
    IF ~Contains(s, ",") THEN <<s>>
    ELSE LET i == CHOOSE k \in DOMAIN s :
                     s[k] = "," /\ \A j \in 1..(k - 1) : s[j] # ","
         IN  <<SubSeq(s, 1, i - 1)>> \o SplitCommas(SubSeq(s, i + 1, Len(s)))

\* parse_available_lots: '1,5' -> [1, 5]; int() raises for a piece that is
\* no integer
ParseAvailableRaises(lots_str) ==
    /\ strip(lots_str) # <<>>
    /\ \E k \in DOMAIN SplitCommas(lots_str) :
           ~IsIntText(strip(SplitCommas(lots_str)[k]))
parse_available_lots(lots_str) ==
    IF strip(lots_str) = <<>> THEN <<>>
    ELSE [k \in DOMAIN SplitCommas(lots_str) |->
             IntOfText(strip(SplitCommas(lots_str)[k]))]

\* the dictionary available_lots_data: a later row of a plot replaces an
\* earlier one; its keys in the order of their first row
available_lots_data(av) ==
    [p \in {av[i].plot_id : i \in DOMAIN av} |->
        parse_available_lots(
            av[CHOOSE i \in DOMAIN av :
                   /\ av[i].plot_id = p
                   /\ \A j \in DOMAIN av : j > i => av[j].plot_id # p].lots_available)]
AvailableKeys(av) ==
    LET ids == [i \in DOMAIN av |-> av[i].plot_id]
    IN  Select(ids, {i \in DOMAIN av : \A j \in 1..(i - 1) : av[j].plot_id # av[i].plot_id})

\* lines 84-119: the mismatches of one plot of available_lots.csv
InList(n, nums) == \E k \in DOMAIN nums : nums[k] = n
IsMismatch(lot, nums) ==
    IF lot.status = "Available" THEN ~InList(IntOfText(lot.lot_number), nums)
    ELSE InList(IntOfText(lot.lot_number), nums)
PlotMismatches(plot_id, nums, ls) ==
    LET plot_lots == Select(ls, {i \in DOMAIN ls : ls[i].plot_id = plot_id})
        found     == Select(plot_lots, {i \in DOMAIN plot_lots :
                                           IsMismatch(plot_lots[i], nums)})
    IN  IF plot_lots = <<>>
        THEN << [plot_id |-> plot_id, lot_id |-> "", status |-> ""] >>
        ELSE [i \in DOMAIN found |->
                 [plot_id |-> plot_id, lot_id |-> found[i].lot_id,
                  status |-> found[i].status]]

\* the list mismatches after the loop of Check 1
Check1(av, ls) ==
    LET keys == AvailableKeys(av)
        F[k \in 0..Len(keys)] ==
            IF k = 0 THEN <<>>
            ELSE F[k - 1] \o PlotMismatches(keys[k], available_lots_data(av)[keys[k]], ls)
    IN  F[Len(keys)]

\* int() raises while available_lots.csv is read (line 37) or for the
\* lot_number of a lot of a listed plot (line 94)
ValidateRaises(av, ls) ==
    \/ \E i \in DOMAIN av : ParseAvailableRaises(av[i].lots_available)
    \/ \E i \in DOMAIN ls :
           /\ \E j \in DOMAIN av : av[j].plot_id = ls[i].plot_id
           /\ ~IsIntText(ls[i].lot_number)

(***************************************************************************)
(* update_cremation_vault_status.py                                        *)
(***************************************************************************)
JerryLeeman ==
    <<"J", "e", "r", "r", "y", " ", "L", "e", "e", "m", "a", "n">>
HughEJohnson ==
    <<"H", "u", "g", "h", " ", "E", ".", " ", "J", "o", "h", "n", "s",
      "o", "n">>
LibbyJudkins ==
    <<"L", "i", "b", "b", "y", " ", "J", "u", "d", "k", "i", "n", "s">>

\* two of the 68 names of CREMATIONS and two of the 20 names of VAULTS;
\* "Hugh E. Johnson" is in both lists of the script
CREMATIONS == {JerryLeeman, HughEJohnson}
VAULTS == {HughEJohnson, LibbyJudkins}

\* str.replace(c, ''): the characters other than c
Without(s, c) == Select(s, {i \in DOMAIN s : s[i] # c})

\* str.replace('  ', ' '): one pass from the left over non-overlapping pairs
RECURSIVE ReplaceDoubleSpace(_)
ReplaceDoubleSpace(s) ==
    IF Len(s) < 2 THEN s
    ELSE IF s[1] = " " /\ s[2] = " "
         THEN <<" ">> \o ReplaceDoubleSpace(SubSeq(s, 3, Len(s)))
         ELSE <<s[1]>> \o ReplaceDoubleSpace(Tail(s))

normalize_name(name) ==
    lower(ReplaceDoubleSpace(Without(Without(strip(name), ","), ".")))

\* the keys of the dictionaries cremation_names and vault_names
cremation_names == { normalize_name(n) : n \in CREMATIONS }
vault_names == { normalize_name(n) : n \in VAULTS }

\* the body of the loop over the occupants
UpdatedOccupant(occ) ==
    IF normalize_name(strip(occ.name)) \in cremation_names
    THEN IF occ.status # "Cremation" THEN [occ EXCEPT !.status = "Cremation"] ELSE occ
    ELSE IF normalize_name(strip(occ.name)) \in vault_names
    THEN IF occ.status # "Vault" THEN [occ EXCEPT !.status = "Vault"] ELSE occ
    ELSE occ

UpdatedOccupants(occs) == [i \in DOMAIN occs |-> UpdatedOccupant(occs[i])]

(***************************************************************************)
(* The data the runs start from                                            *)
(***************************************************************************)
MaxRuns   == 2     \* runs of fix_lot_status in one behaviour
MaxImages == 3     \* length of the list handed to sort_images

CYA1  == <<"C", "Y", "A", "1">>
OYK1  == <<"O", "Y", "K", "1">>
UTB25 == <<"U", "T", "B", "2", "5">>
ITC9  == <<"I", "T", "C", "9">>

Lot(id, plot, num, pr, rr, st) ==
    [lot_id |-> id, plot_id |-> plot, lot_number |-> num,
     purchased_rights |-> pr, remaining_rights |-> rr, status |-> st,
     extra |-> <<>>]

\* lots.csv: four lots, the plots and the lot numbers not in sorted order
InitialLots ==
    { << Lot("UTB25-L1", UTB25, <<"1">>, p1, <<"0">>, "Available"),
         Lot("OYK1-L2",  OYK1,  <<"2">>, p2, <<"0">>, s2),
         Lot("CYA1-L2",  CYA1,  <<"0", "2">>, p3, r3, s3),
         Lot("CYA1-L1",  CYA1,  n4,      p4, r4, s4) >> :
        p1 \in {<<"0">>, <<"2">>},
        p2 \in {<<"0">>, <<"2">>}, s2 \in {"Available", "Unoccupied"},
        p3 \in {<<"0">>, <<"2">>, <<"x">>}, r3 \in {<<"0">>, <<"1">>},
        s3 \in {"Available", "Occupied"},
        n4 \in {<<"1">>, <<"x">>}, p4 \in {<<"0">>, <<"2">>},
        r4 \in {<<"0">>, <<"1">>}, s4 \in {"Available", "Fully Occupied"} }

\* the same file with a non-integer value in the override lot, with an
\* empty value, without one or both of the rights columns, and with a row
\* that has one cell more than the header
LotsWithBadColumns ==
    LET base == << Lot("UTB25-L1", UTB25, <<"1">>, <<"2">>, <<"0">>, "Available"),
                   Lot("OYK1-L2",  OYK1,  <<"2">>, <<"2">>, <<"0">>, "Unoccupied"),
                   Lot("CYA1-L2",  CYA1,  <<"0", "2">>, <<"2">>, <<"1">>, "Occupied"),
                   Lot("CYA1-L1",  CYA1,  <<"1">>, <<"2">>, <<"0">>, "Available") >>
    IN  { [base EXCEPT ![1].purchased_rights = <<"x">>],
          [base EXCEPT ![2].remaining_rights = <<>>],
          [i \in DOMAIN base |-> [base[i] EXCEPT !.purchased_rights = NoColumn]],
          [i \in DOMAIN base |-> [base[i] EXCEPT !.remaining_rights = NoColumn]],
          [i \in DOMAIN base |-> [base[i] EXCEPT !.purchased_rights = NoColumn,
                                                 !.remaining_rights = NoColumn]],
          [base EXCEPT ![3].extra = <<"x">>],
          [base EXCEPT ![1].extra = <<"x">>, ![1].status = "Not Available"] }

NamedOccupant(id, name, st) == [lot_id |-> id, name |-> name, status |-> st]
Occupant(id, st) == NamedOccupant(id, <<>>, st)

\* occupants.csv: any sub-list of these rows
OccupantPool ==
    << Occupant("CYA1-L2", "Occupant"), Occupant("CYA1-L2", "Reserved"),
       Occupant("CYA1-L1", "Cremation") >>
InitialOccupants ==
    { Select(OccupantPool, I) : I \in SUBSET DOMAIN OccupantPool }

\* available_lots.csv as an earlier run or an editor left it
InitialAvailable ==
    { <<>>,
      << [plot_id |-> CYA1, lots_available |-> <<"1", ",", "2", ",", "7">>],
         [plot_id |-> ITC9, lots_available |-> <<"4">>] >> }

\* validate_data has not run
NotValidated == [called |-> FALSE, lots |-> <<>>, available |-> <<>>,
                 raised |-> FALSE, mismatches |-> <<>>]

NoRun == [applies |-> 0, lots |-> <<>>, available |-> <<>>,
          old_available |-> <<>>, changed |-> 0]

\* a file that does not exist
NoFile == [exists |-> FALSE, rows |-> <<>>]

IdleLots ==
    /\ lots_csv = <<>> /\ occupants_csv = <<>> /\ available_csv = <<>>
    /\ lots_backup = NoFile
    /\ pc = "idle" /\ dry_run = TRUE /\ lots = <<>> /\ changes = <<>>
    /\ runs = 0 /\ first_run = NoRun /\ validation = NotValidated

NotParsed == [called |-> FALSE, result |-> None]

NotExtracted == [called |-> FALSE, result |-> <<>>]

IdleNames ==
    /\ filename = <<>> /\ parsed = NotParsed /\ naming = NotCalled
    /\ suggested = NotExtracted

NotSorted == [called |-> FALSE, result |-> <<>>]

IdleSort ==
    /\ image_list = <<>> /\ sorted_images = NotSorted

IdleVeterans ==
    /\ veterans_csv = [fieldnames |-> <<>>, rows |-> <<>>] /\ vet_runs = 0
    /\ status_log = <<>>

NoFixes == [files_to_rename |-> <<>>, plots_to_update |-> <<>>]

IdleImages ==
    /\ plots_csv = <<>> /\ plots_backup = NoFile
    /\ image_files = {} /\ image_folders = {}
    /\ img_pc = "idle" /\ argv = {} /\ plot_rows = <<>> /\ fixes = NoFixes
    /\ new_images = <<>>
    /\ report = NoReport /\ run_log = <<>>

(***************************************************************************)
(* Specification of fix_lot_status: runs of the script, one after another  *)
(***************************************************************************)
Init ==
    /\ lots_csv \in InitialLots \cup LotsWithBadColumns
    /\ occupants_csv \in InitialOccupants
    /\ available_csv \in InitialAvailable
    /\ lots_backup = NoFile
    /\ pc = "idle" /\ dry_run = TRUE /\ lots = <<>> /\ changes = <<>>
    /\ runs = 0 /\ first_run = NoRun /\ validation = NotValidated
    /\ IdleNames /\ IdleSort /\ IdleImages /\ IdleVeterans

\* lines 41-145: read both files, analyse every lot, report; a dry run ends
Analyse(d) ==
    /\ pc \in {"idle", "done", "failed"}
    /\ runs < MaxRuns
    /\ runs' = runs + 1
    /\ dry_run' = d
    /\ IF AnalysisRaises(lots_csv)
       THEN /\ pc' = "failed"
            /\ lots' = <<>>
            /\ changes' = <<>>
       ELSE /\ lots' = AnalysedLots(lots_csv, occupants_csv)
            /\ changes' = AnalysedChanges(lots_csv, occupants_csv)
            /\ pc' = IF d THEN "done" ELSE "write_lots"
    /\ UNCHANGED <<lots_csv, occupants_csv, available_csv, lots_backup,
                   first_run, validation>>
    /\ UNCHANGED nameVars /\ UNCHANGED sortVars /\ UNCHANGED imgVars
    /\ UNCHANGED vetVars

\* lines 147-153: lots.csv is opened for writing and rewritten from the
\* in-memory lots; nothing is copied before. A ValueError of writerows ends
\* the run with the file holding what was written so far
WriteLots ==
    /\ pc = "write_lots"
    /\ lots_csv' = WrittenLots(lots)
    /\ pc' = IF WriteRaises(lots) THEN "failed" ELSE "gen_available"
    /\ UNCHANGED <<occupants_csv, available_csv, lots_backup, dry_run, lots,
                   changes, runs, first_run, validation>>
    /\ UNCHANGED nameVars /\ UNCHANGED sortVars /\ UNCHANGED imgVars
    /\ UNCHANGED vetVars

\* lines 156-184: available_lots.csv is rewritten from the in-memory lots
GenerateAvailable ==
    /\ pc = "gen_available"
    /\ IF AvailableRaises(lots)
       THEN /\ pc' = "failed"
            /\ UNCHANGED <<available_csv, first_run>>
       ELSE /\ available_csv' = AvailableRows(lots)
            /\ pc' = "done"
            /\ first_run' = IF first_run.applies > 0
                            THEN [first_run EXCEPT !.applies = @ + 1]
                            ELSE [applies |-> 1, lots |-> lots_csv,
                                  available |-> AvailableRows(lots),
                                  old_available |-> available_csv,
                                  changed |-> Len(changes)]
    /\ UNCHANGED <<lots_csv, occupants_csv, lots_backup, dry_run, lots,
                   changes, runs, validation>>
    /\ UNCHANGED nameVars /\ UNCHANGED sortVars /\ UNCHANGED imgVars
    /\ UNCHANGED vetVars

Next ==
    \/ \E d \in BOOLEAN : Analyse(d)
    \/ WriteLots
    \/ GenerateAvailable

Spec == Init /\ [][Next]_vars

(***************************************************************************)
(* Specification of the filename functions, applied to one filename        *)
(***************************************************************************)
Concat(a, b, c, d, e, f) == a \o b \o c \o d \o e \o f

YardParts == { <<"I", "T">>, <<"N", "Y">>, <<"n", "y">>, <<"U">> }
PlotParts == { <<"C", "4">>, <<"c", "1", "2">>, <<"4">>, <<"C">> }
DashParts == { <<"-">>, <<>>, <<".", "-">> }
LotParts  == { <<"1">>, <<"0">>, <<"1", "2">>, <<>> }
TailParts == { <<>>, <<"a">>, <<"M">>, <<"a", "b">>, <<"a", "F">>,
               <<"F">>, <<"B">>, <<"P">>, <<"V">>, <<"f">> }
ExtParts  == { <<".", "j", "p", "g">>, <<".", "J", "P", "G">>,
               <<".", "j", "p", "e", "g">>, <<".", "J", "p", "g">>,
               <<".", "J", "P", "e", "G">>, <<".", "p", "n", "g">>,
               <<".", "P", "n", "g">>, <<>> }

Filenames ==
    { Concat(y, p, d, l, t, e) :
        y \in YardParts, p \in PlotParts, d \in DashParts,
        l \in LotParts, t \in TailParts, e \in ExtParts }
    \cup { <<"I", "T", "C", "1", "2", "-", "3", "F", ".", "j", "p", "g">>,
           <<"g", "a", "r", "b", "a", "g", "e", ".", "p", "n", "g">>,
           <<"U", "T", "C", "4", ".", "-", "1", ".", "J", "P", "G">>,
           <<"N", "Y", "C", "4", "1", ".", "-", "J", "P", "G">> }

InitNames ==
    /\ filename \in Filenames
    /\ parsed = NotParsed
    /\ naming = NotCalled
    /\ suggested = NotExtracted
    /\ IdleLots /\ IdleSort /\ IdleImages /\ IdleVeterans

ParseFilename ==
    /\ ~parsed.called
    /\ parsed' = [called |-> TRUE, result |-> parse_new_format_filename(filename)]
    /\ UNCHANGED <<filename, naming, suggested>>
    /\ UNCHANGED lotVars /\ UNCHANGED sortVars /\ UNCHANGED imgVars
    /\ UNCHANGED vetVars

DetectNamingErrors ==
    /\ ~naming.called
    /\ naming' = detect_naming_errors(filename)
    /\ UNCHANGED <<filename, parsed, suggested>>
    /\ UNCHANGED lotVars /\ UNCHANGED sortVars /\ UNCHANGED imgVars
    /\ UNCHANGED vetVars

\* find_orphaned_images lines 130 and 141: the plot taken from a filename
ExtractPlot ==
    /\ ~suggested.called
    /\ suggested' = [called |-> TRUE, result |-> extract_plot_from_filename(filename)]
    /\ UNCHANGED <<filename, parsed, naming>>
    /\ UNCHANGED lotVars /\ UNCHANGED sortVars /\ UNCHANGED imgVars
    /\ UNCHANGED vetVars

NextNames == ParseFilename \/ DetectNamingErrors \/ ExtractPlot

SpecNames == InitNames /\ [][NextNames]_vars

(***************************************************************************)
(* Specification of sort_images, applied to one list                       *)
(***************************************************************************)
ImagePool ==
    { <<"I", "T", "C", "1", "-", "2", "F", ".", "j", "p", "g">>,
      <<"I", "T", "C", "1", "-", "2", "B", ".", "j", "p", "g">>,
      <<"I", "T", "C", "1", "-", "1", "F", ".", "j", "p", "g">>,
      <<"I", "T", "C", "1", "-", "0", ".", "j", "p", "g">>,
      <<"o", "l", "d", ".", "j", "p", "g">>,
      <<"I", "M", "G", "7", ".", "j", "p", "g">> }

InitSort ==
    /\ image_list \in UNION { [1..n -> ImagePool] : n \in 0..MaxImages }
    /\ sorted_images = NotSorted
    /\ IdleLots /\ IdleNames /\ IdleImages /\ IdleVeterans

SortImages ==
    /\ ~sorted_images.called
    /\ sorted_images' = [called |-> TRUE, result |-> sort_images(image_list)]
    /\ UNCHANGED image_list
    /\ UNCHANGED lotVars /\ UNCHANGED nameVars /\ UNCHANGED imgVars
    /\ UNCHANGED vetVars

NextSort == SortImages

SpecSort == InitSort /\ [][NextSort]_vars

(***************************************************************************)
(* Specification of cleanup_missing_images and verify_images, run one      *)
(* after another on one plots.csv and one set of image files               *)
(***************************************************************************)
NYC4 == <<"N", "Y", "C", "4">>
ZZA1 == <<"Z", "Z", "A", "1">>

NYC4_1  == <<"N", "Y", "C", "4", "-", "1", ".", "J", "P", "G">>
NYC4_2F == <<"N", "Y", "C", "4", "-", "2", "F", ".", "j", "p", "g">>
ZZA1_1  == <<"Z", "Z", "A", "1", "-", "1", ".", "j", "p", "g">>
ITC9_1  == <<"I", "T", "C", "9", "-", "1", ".", "j", "p", "g">>

Plot(id, images) == [plot_id |-> id, monument_images |-> images]

\* plots.csv: a New Yard plot, a plot of no known yard, and an Intervale
\* Terrace plot or a row whose plot_id is a single character
PlotsToCheck ==
    { << Plot(NYC4, i1), Plot(ZZA1, i2), Plot(p3, i3) >> :
        i1 \in { <<>>, join(<<NYC4_1, NYC4_2F>>),
                 <<" ">> \o NYC4_2F \o <<" ", ";">> \o NYC4_1 \o <<";">>,
                 ZZA1_1 },
        i2 \in { <<>>, ZZA1_1 },
        p3 \in { ITC9, <<"X">> },
        i3 \in { <<>>, ITC9_1 } }

FilesToCheck ==
    SUBSET { <<NewYard, NYC4_1>>, <<NewYard, NYC4_2F>>, <<ChurchYard, ZZA1_1>>,
             <<Intervale, ITC9_1>>, <<IntervaleTerrace, ITC9_1>> }

AllFolders ==
    {ChurchYard, Intervale, IntervaleTerrace, NewYard, OldYard, UpperTerrace}

FoldersOf(files) == { f[1] : f \in files }

InitMissing ==
    /\ plots_csv \in PlotsToCheck
    /\ image_files \in FilesToCheck
    /\ image_folders \in {FoldersOf(image_files), AllFolders}
    /\ plots_backup = NoFile
    /\ img_pc = "idle" /\ argv = {} /\ plot_rows = <<>> /\ fixes = NoFixes
    /\ new_images = <<>>
    /\ report = NoReport /\ run_log = <<>>
    /\ IdleLots /\ IdleNames /\ IdleSort /\ IdleVeterans

\* one entry of run_log: the script, its flags, the files as the run found
\* them and as it left them, and what it reported
LogEntry(script, flags, csv_after, files_after, listed) ==
    [script |-> script, argv |-> flags,
     plots_before |-> plots_csv, files_before |-> image_files,
     plots_after |-> csv_after, files_after |-> files_after,
     backup_after |-> plots_backup, listed |-> listed]

\* main line 138: dry_run = '--dry-run' in sys.argv
CleanupDryRun(flags) == "--dry-run" \in flags

\* main and cleanup_csv lines 40-99 and 127-133: read plots.csv and drop the
\* missing images in memory; a dry run, and a run that found nothing to
\* remove, end here
CleanupRead(flags) ==
    /\ img_pc = "idle" /\ Len(run_log) < MaxRuns
    /\ argv' = flags
    /\ plot_rows' = CleanedRows(plots_csv, image_files)
    /\ IF CleanupDryRun(flags) \/ ModifiedByCleanup(plots_csv, image_files) = {}
       THEN /\ img_pc' = "idle"
            /\ run_log' = Append(run_log,
                   LogEntry("cleanup_missing_images", flags, plots_csv, image_files,
                            ModifiedByCleanup(plots_csv, image_files)))
       ELSE /\ img_pc' = "cleanup_backup"
            /\ UNCHANGED run_log
    /\ UNCHANGED <<plots_csv, plots_backup, image_files, image_folders, fixes, new_images, report>>
    /\ UNCHANGED lotVars /\ UNCHANGED nameVars /\ UNCHANGED sortVars
    /\ UNCHANGED vetVars

\* lines 104-109: shutil.copy2(csv_path, backup_path)
CleanupBackup ==
    /\ img_pc = "cleanup_backup"
    /\ plots_backup' = [exists |-> TRUE, rows |-> plots_csv]
    /\ img_pc' = "cleanup_write"
    /\ UNCHANGED <<plots_csv, image_files, image_folders, argv, plot_rows, fixes, new_images, report,
                   run_log>>
    /\ UNCHANGED lotVars /\ UNCHANGED nameVars /\ UNCHANGED sortVars
    /\ UNCHANGED vetVars

\* lines 111-114: the file is rewritten from the in-memory rows
CleanupWrite ==
    /\ img_pc = "cleanup_write"
    /\ plots_csv' = plot_rows
    /\ img_pc' = "idle"
    /\ run_log' = Append(run_log,
           LogEntry("cleanup_missing_images", argv, plot_rows, image_files,
                    ModifiedByCleanup(plots_csv, image_files)))
    /\ UNCHANGED <<plots_backup, image_files, image_folders, argv, plot_rows, fixes, new_images, report>>
    /\ UNCHANGED lotVars /\ UNCHANGED nameVars /\ UNCHANGED sortVars
    /\ UNCHANGED vetVars

\* verify_images.py: a report, nothing is written
VerifyImages ==
    /\ img_pc = "idle" /\ Len(run_log) < MaxRuns
    /\ report' = verify_images(plots_csv, image_files, image_folders)
    /\ run_log' = Append(run_log,
           LogEntry("verify_images", {}, plots_csv, image_files,
                    verify_images(plots_csv, image_files, image_folders)))
    /\ UNCHANGED <<plots_csv, plots_backup, image_files, image_folders, img_pc,
                   argv, plot_rows, fixes, new_images>>
    /\ UNCHANGED lotVars /\ UNCHANGED nameVars /\ UNCHANGED sortVars
    /\ UNCHANGED vetVars

NextMissing ==
    \/ \E flags \in {{}, {"--dry-run"}} : CleanupRead(flags)
    \/ CleanupBackup
    \/ CleanupWrite
    \/ VerifyImages

SpecMissing == InitMissing /\ [][NextMissing]_vars

(***************************************************************************)
(* Specification of match_orphaned_images, run one time after another,     *)
(* with runs of cleanup_missing_images in between                          *)
(***************************************************************************)
UTC4 == <<"U", "T", "C", "4">>

NYC41M    == <<"N", "Y", "C", "4", "1", "M", ".", "J", "P", "G">>
NYC4_1M   == <<"N", "Y", "C", "4", "-", "1", "M", ".", "J", "P", "G">>
UTC4_1    == <<"U", "T", "C", "4", "-", "1", ".", "J", "P", "G">>
UTC4dot_1 == <<"U", "T", "C", "4", ".", "-", "1", ".", "J", "p", "g">>
NYZ9_1    == <<"N", "Y", "Z", "9", "-", "1", ".", "p", "n", "g">>

\* plots.csv: a New Yard plot and an Upper Terrace plot
PlotsToMatch ==
    { << Plot(NYC4, i1), Plot(UTC4, i2) >> :
        i1 \in { <<>>, NYC4_1M, NYC4_1M \o <<";">> \o NYC41M },
        i2 \in { <<>>, UTC4_1 } }

\* image files: one lacking its dash, the name it would be renamed to, an
\* Upper Terrace image lying in the New Yard folder, one with two naming
\* errors, and one of a plot that plots.csv does not have
FilesToMatch ==
    SUBSET { <<NewYard, NYC41M>>, <<NewYard, NYC4_1M>>, <<NewYard, UTC4_1>>,
             <<UpperTerrace, UTC4dot_1>>, <<NewYard, NYZ9_1>> }

InitMatch ==
    /\ plots_csv \in PlotsToMatch
    /\ image_files \in FilesToMatch
    /\ image_folders = AllFolders
    /\ plots_backup = NoFile
    /\ img_pc = "idle" /\ argv = {} /\ plot_rows = <<>> /\ fixes = NoFixes
    /\ new_images = <<>>
    /\ report = NoReport /\ run_log = <<>>
    /\ IdleLots /\ IdleNames /\ IdleSort /\ IdleVeterans

\* FOLDER_MAP.items() in the order of the dictionary
FolderRank(folder) ==
    CASE folder = ChurchYard       -> 1
      [] folder = IntervaleTerrace -> 2
      [] folder = NewYard          -> 3
      [] folder = OldYard          -> 4
      [] folder = UpperTerrace     -> 5
      [] OTHER                     -> 0

RECURSIVE Orders(_)
Orders(S) ==
    IF S = {} THEN {<<>>}
    ELSE UNION { { <<x>> \o o : o \in Orders(S \ {x}) } : x \in S }

\* the files as the loops of lines 117-122 meet them: folder after folder,
\* the files of a folder in the order iterdir() happens to give
Listings(files, folders) ==
    { l \in Orders({ f \in files : FolderRank(f[1]) > 0 /\ f[1] \in folders }) :
        \A i, j \in DOMAIN l : i < j => FolderRank(l[i][1]) <= FolderRank(l[j][1]) }

\* __main__ lines 358-364: apply_fixes(..., dry_run=not apply_changes) with
\* apply_changes = '--apply' in sys.argv
MatchDryRun_UnlessAsked(flags) == "--dry-run" \in flags
MatchDryRun(flags) == "--apply" \notin flags

\* __main__ and apply_fixes lines 220-296: find the orphaned images, plan
\* the renames and the plot updates; without --apply the run ends here
MatchFind(flags) ==
    /\ img_pc = "idle" /\ Len(run_log) < MaxRuns
    /\ \E listing \in Listings(image_files, image_folders) :
       \E matches \in {find_orphaned_images(listing, plots_csv)} :
       \E planned \in {[files_to_rename |-> FilesToRename(matches),
                        plots_to_update |-> PlotsToUpdate(matches)]} :
           /\ argv' = flags
           /\ fixes' = planned
           /\ run_log' = Append(run_log,
                  LogEntry("match_orphaned_images", flags, plots_csv, image_files,
                           [orphaned |-> { <<matches[k].folder, matches[k].current_filename>> :
                                             k \in DOMAIN matches },
                            files_to_rename |-> planned.files_to_rename,
                            plots_to_update |-> planned.plots_to_update]))
           /\ img_pc' = IF matches = <<>> \/ MatchDryRun(flags) THEN "idle"
                        ELSE IF planned.files_to_rename # <<>> THEN "match_rename"
                        ELSE IF DOMAIN planned.plots_to_update # {} THEN "match_write"
                        ELSE "idle"
    /\ UNCHANGED <<plots_csv, plots_backup, image_files, image_folders, plot_rows,
                   new_images, report>>
    /\ UNCHANGED lotVars /\ UNCHANGED nameVars /\ UNCHANGED sortVars
    /\ UNCHANGED vetVars

\* lines 302-311: the renames
MatchRename ==
    /\ img_pc = "match_rename"
    /\ image_files' = RenameFiles(image_files, fixes.files_to_rename)
    /\ run_log' = [run_log EXCEPT ![Len(run_log)].files_after = image_files']
    /\ img_pc' = IF DOMAIN fixes.plots_to_update # {} THEN "match_write" ELSE "idle"
    /\ UNCHANGED <<plots_csv, plots_backup, image_folders, argv, plot_rows, fixes, new_images, report>>
    /\ UNCHANGED lotVars /\ UNCHANGED nameVars /\ UNCHANGED sortVars
    /\ UNCHANGED vetVars

\* lines 314-342: plots.csv is read again, updated and written
MatchWrite ==
    /\ img_pc = "match_write"
    /\ plot_rows' = UpdatedPlots(plots_csv, fixes.plots_to_update)
    /\ plots_csv' = plot_rows'
    /\ run_log' = [run_log EXCEPT ![Len(run_log)].plots_after = plots_csv']
    /\ img_pc' = "idle"
    /\ UNCHANGED <<plots_backup, image_files, image_folders, argv, fixes, new_images, report>>
    /\ UNCHANGED lotVars /\ UNCHANGED nameVars /\ UNCHANGED sortVars
    /\ UNCHANGED vetVars

NextMatch ==
    \/ \E flags \in {{}, {"--apply"}} : MatchFind(flags)
    \/ MatchRename
    \/ MatchWrite
    \/ \E flags \in {{}, {"--dry-run"}} : CleanupRead(flags)
    \/ CleanupBackup
    \/ CleanupWrite

SpecMatch == InitMatch /\ [][NextMatch]_vars

(***************************************************************************)
(* Specification of update_plot_images, run one time after another on one  *)
(* plots.csv and one set of image files                                    *)
(***************************************************************************)
NYC4_1B  == <<"N", "Y", "C", "4", "-", "1", "B", ".", "j", "p", "g">>
NYC4_1b  == <<"n", "y", "c", "4", "-", "1", ".", "j", "p", "g">>
NYC4_old == <<"C", "4", " ", "o", "l", "d", ".", "j", "p", "g">>

\* plots.csv: the image list of the New Yard plot empty, unsorted, with
\* uneven spacing and a repeated name, with a name that differs from a file's
\* in case only, with a name of the old format, and of semicolons only
PlotsBeforeUpdate ==
    { << Plot(NYC4, i1), Plot(UTC4, i2) >> :
        i1 \in { <<>>,
                 NYC4_1 \o <<";">> \o NYC4_2F,
                 <<" ">> \o NYC4_1 \o <<" ", ";", " ", " ">> \o NYC4_1 \o <<";">>,
                 NYC4_1b \o <<";", " ">> \o NYC4_old,
                 NYC4_old \o <<";", " ">> \o NYC4_2F \o <<" ">>,
                 <<";">>,
                 join(<<NYC4_2F, NYC4_1>>) },
        i2 \in { <<>>, UTC4_1 } }

\* image files: three of the New Yard plot, two of them with the same sort
\* key, an Upper Terrace image in its folder and one in the wrong folder,
\* and two New Yard images whose names differ in case only
FilesToScan ==
    { {},
      { <<NewYard, NYC4_1>> },
      { <<NewYard, NYC4_1B>>, <<NewYard, NYC4_1>> },
      { <<NewYard, NYC4_1B>>, <<NewYard, NYC4_2F>>, <<UpperTerrace, UTC4_1>> },
      { <<NewYard, NYC4_2F>>, <<OldYard, UTC4_1>> },
      { <<NewYard, NYC4_1>>, <<NewYard, NYC4_1b>> } }

InitUpdate ==
    /\ plots_csv \in PlotsBeforeUpdate
    /\ image_files \in FilesToScan
    /\ image_folders = AllFolders
    /\ plots_backup = NoFile
    /\ img_pc = "idle" /\ argv = {} /\ plot_rows = <<>> /\ fixes = NoFixes
    /\ new_images = <<>>
    /\ report = NoReport /\ run_log = <<>>
    /\ IdleLots /\ IdleNames /\ IdleSort /\ IdleVeterans

\* the files as scan_images meets them: folder after folder in the order of
\* YARD_MAPPINGS, the files of a folder in the order os.listdir() gives
ScanListings(files, folders) ==
    { l \in Orders({ f \in files : ScanRank(f[1]) > 0 /\ f[1] \in folders }) :
        \A i, j \in DOMAIN l : i < j => ScanRank(l[i][1]) <= ScanRank(l[j][1]) }

\* main line 195: dry_run = '--dry-run' in sys.argv
UpdateDryRun_Ignored(flags) == FALSE
UpdateDryRun(flags) == "--dry-run" \in flags

\* main lines 204-212: scan the folders; a run that found no image of the
\* new format ends here, before plots.csv is read
UpdateScan(flags) ==
    /\ img_pc = "idle" /\ Len(run_log) < MaxRuns
    /\ argv' = flags
    /\ \E listing \in ScanListings(image_files, image_folders) :
           new_images' = scan_images(listing)
    /\ run_log' = Append(run_log,
           LogEntry("update_plot_images", flags, plots_csv, image_files,
                    [new_images |-> new_images', updates_made |-> 0]))
    /\ img_pc' = IF DOMAIN new_images' = {} THEN "idle" ELSE "update_read"
    /\ UNCHANGED <<plots_csv, plots_backup, image_files, image_folders, plot_rows,
                   fixes, report>>
    /\ UNCHANGED lotVars /\ UNCHANGED nameVars /\ UNCHANGED sortVars
    /\ UNCHANGED vetVars

\* update_plots_csv lines 126-170: read plots.csv and update the rows in
\* memory; a dry run ends here
UpdateRead ==
    /\ img_pc = "update_read"
    /\ plot_rows' = update_plots_csv(plots_csv, new_images)
    /\ run_log' = [run_log EXCEPT ![Len(run_log)].listed.updates_made =
                                      updates_made(plots_csv, new_images)]
    /\ img_pc' = IF UpdateDryRun(argv) THEN "idle" ELSE "update_backup"
    /\ UNCHANGED <<plots_csv, plots_backup, image_files, image_folders, argv, fixes,
                   new_images, report>>
    /\ UNCHANGED lotVars /\ UNCHANGED nameVars /\ UNCHANGED sortVars
    /\ UNCHANGED vetVars

\* lines 173-179: shutil.copy2(csv_path, backup_path), changes or not
UpdateBackup ==
    /\ img_pc = "update_backup"
    /\ plots_backup' = [exists |-> TRUE, rows |-> plots_csv]
    /\ run_log' = [run_log EXCEPT ![Len(run_log)].backup_after = plots_backup']
    /\ img_pc' = "update_write"
    /\ UNCHANGED <<plots_csv, image_files, image_folders, argv, plot_rows, fixes,
                   new_images, report>>
    /\ UNCHANGED lotVars /\ UNCHANGED nameVars /\ UNCHANGED sortVars
    /\ UNCHANGED vetVars

\* lines 181-184: the file is rewritten from the in-memory rows
UpdateWrite ==
    /\ img_pc = "update_write"
    /\ plots_csv' = plot_rows
    /\ run_log' = [run_log EXCEPT ![Len(run_log)].plots_after = plots_csv']
    /\ img_pc' = "idle"
    /\ UNCHANGED <<plots_backup, image_files, image_folders, argv, plot_rows, fixes,
                   new_images, report>>
    /\ UNCHANGED lotVars /\ UNCHANGED nameVars /\ UNCHANGED sortVars
    /\ UNCHANGED vetVars

NextUpdate ==
    \/ \E flags \in {{}, {"--dry-run"}} : UpdateScan(flags)
    \/ UpdateRead
    \/ UpdateBackup
    \/ UpdateWrite

SpecUpdate == InitUpdate /\ [][NextUpdate]_vars

(***************************************************************************)
(* Specification of fix_veteran_suffixes, run one time after another on    *)
(* one veterans.csv                                                        *)
(***************************************************************************)
MiddlePool ==
    { <<>>,
      <<"A">>,
      <<"A", " ", "J", "r", ".">>,
      <<"J", "r">>,
      <<"A", " ", " ", "s", "r">>,
      <<" ", "B", " ", "I", "I", " ">>,
      <<"A", " ", "J", "r", ".", " ", "S", "r", ".">>,
      <<"M", ".", "D", ".">>,
      <<"A", "\t", "I", "I", "I">> }

VeteranHeaders ==
    { <<"First Name", MiddleName, "Last Name">>,
      <<"Last Name", MiddleName>>,
      <<"First Name", "Last Name">> }

\* a record with the given middle field under a header
VeteranRow(fieldnames, middle) ==
    [k \in DOMAIN fieldnames |-> IF fieldnames[k] = MiddleName THEN middle ELSE <<"X">>]

InitVeterans ==
    /\ \E h \in VeteranHeaders : \E m1, m2 \in MiddlePool :
           veterans_csv = [fieldnames |-> h,
                           rows |-> << VeteranRow(h, m1), VeteranRow(h, m2) >>]
    /\ vet_runs = 0 /\ status_log = <<>>
    /\ IdleLots /\ IdleNames /\ IdleSort /\ IdleImages

\* main: the file is read, every record parsed, the file written
FixVeteranSuffixes ==
    /\ vet_runs < MaxRuns
    /\ vet_runs' = vet_runs + 1
    /\ veterans_csv' = IF SuffixRaises(veterans_csv.fieldnames) THEN veterans_csv
                       ELSE FixedVeterans(veterans_csv)
    /\ UNCHANGED status_log
    /\ UNCHANGED lotVars /\ UNCHANGED nameVars /\ UNCHANGED sortVars
    /\ UNCHANGED imgVars

NextVeterans == FixVeteranSuffixes

SpecVeterans == InitVeterans /\ [][NextVeterans]_vars

(***************************************************************************)
(* Specification of update_cremation_vault_status: runs of the script on   *)
(* an occupants.csv of two rows                                            *)
(***************************************************************************)
\* names as the file may hold them: as in the lists, without the period,
\* in lower case with a comma, with two spaces, with spaces around, and a
\* name that is in neither list
OccupantNames ==
    { JerryLeeman, HughEJohnson, LibbyJudkins,
      Without(HughEJohnson, "."),
      lower(JerryLeeman) \o <<",">>,
      <<"L", "i", "b", "b", "y", " ", " ", "J", "u", "d", "k", "i", "n", "s">>,
      <<" ">> \o LibbyJudkins \o <<" ">>,
      <<"J", "o", "h", "n", " ", "D", "o", "e">> }
OccupantStatuses == {"Occupant", "Reserved", "Cremation", "Vault"}

InitStatus ==
    /\ \E n1, n2 \in OccupantNames : \E s1, s2 \in OccupantStatuses :
           occupants_csv = << NamedOccupant("CYA1-L1", n1, s1),
                              NamedOccupant("CYA1-L2", n2, s2) >>
    /\ lots_csv = <<>> /\ available_csv = <<>> /\ lots_backup = NoFile
    /\ pc = "idle" /\ dry_run = TRUE /\ lots = <<>> /\ changes = <<>>
    /\ runs = 0 /\ first_run = NoRun /\ validation = NotValidated
    /\ veterans_csv = [fieldnames |-> <<>>, rows |-> <<>>] /\ vet_runs = 0
    /\ status_log = <<>>
    /\ IdleNames /\ IdleSort /\ IdleImages

\* main: occupants.csv is read, every row updated and the file written
UpdateCremationVaultStatus ==
    /\ Len(status_log) < MaxRuns
    /\ occupants_csv' = UpdatedOccupants(occupants_csv)
    /\ status_log' = Append(status_log, [before |-> occupants_csv,
                                         after  |-> occupants_csv'])
    /\ UNCHANGED <<lots_csv, available_csv, lots_backup, pc, dry_run, lots,
                   changes, runs, first_run, validation, veterans_csv,
                   vet_runs>>
    /\ UNCHANGED nameVars /\ UNCHANGED sortVars /\ UNCHANGED imgVars

NextStatus == UpdateCremationVaultStatus

SpecStatus == InitStatus /\ [][NextStatus]_vars

(***************************************************************************)
(* Specification of validate_data, run before and after runs of            *)
(* fix_lot_status                                                          *)
(***************************************************************************)
\* lots.csv: the plot CYA1 with two lots whose numbers are equal, different
\* or no integer; purchased or not, listed as Available or not
LotsToValidate ==
    { << Lot("UTB25-L1", UTB25, <<"1">>, <<"0">>, <<"0">>, "Available"),
         Lot("OYK1-L2",  OYK1,  <<"2">>, p2, <<"0">>, "Unoccupied"),
         Lot("CYA1-L2",  CYA1,  <<"0", "2">>, p3, <<"1">>, s3),
         Lot("CYA1-L1",  CYA1,  n4,      p4, <<"0">>, s4) >> :
        p2 \in {<<"0">>, <<"2">>},
        p3 \in {<<"0">>, <<"2">>}, s3 \in {"Available", "Occupied"},
        n4 \in {<<"1">>, <<"2">>, <<"x">>}, p4 \in {<<"0">>, <<"2">>},
        s4 \in {"Available", "Fully Occupied"} }

\* available_lots.csv: absent rows, stale numbers and a plot that lots.csv
\* does not have, two rows of one plot with spaces around the numbers, an
\* empty list, and a number that is no integer
AvailableToValidate ==
    InitialAvailable \cup
    { << [plot_id |-> CYA1, lots_available |-> <<"7">>],
         [plot_id |-> CYA1, lots_available |-> <<" ", "2", ",", " ", "1">>] >>,
      << [plot_id |-> CYA1, lots_available |-> <<>>],
         [plot_id |-> OYK1, lots_available |-> <<"2">>] >>,
      << [plot_id |-> OYK1, lots_available |-> <<"2", ",", "x">>] >> }

InitValidate ==
    /\ lots_csv \in LotsToValidate
    /\ occupants_csv = OccupantPool
    /\ available_csv \in AvailableToValidate
    /\ lots_backup = NoFile
    /\ pc = "idle" /\ dry_run = TRUE /\ lots = <<>> /\ changes = <<>>
    /\ runs = 0 /\ first_run = NoRun /\ validation = NotValidated
    /\ IdleNames /\ IdleSort /\ IdleImages /\ IdleVeterans

\* validate_data: the files are read and Check 1 compares them
ValidateData ==
    /\ pc \in {"idle", "done", "failed"}
    /\ validation' =
           [called |-> TRUE, lots |-> lots_csv, available |-> available_csv,
            raised |-> ValidateRaises(available_csv, lots_csv),
            mismatches |-> IF ValidateRaises(available_csv, lots_csv) THEN <<>>
                           ELSE Check1(available_csv, lots_csv)]
    /\ UNCHANGED <<lots_csv, occupants_csv, available_csv, lots_backup, pc,
                   dry_run, lots, changes, runs, first_run>>
    /\ UNCHANGED nameVars /\ UNCHANGED sortVars /\ UNCHANGED imgVars
    /\ UNCHANGED vetVars

NextValidate ==
    \/ \E d \in BOOLEAN : Analyse(d)
    \/ WriteLots
    \/ GenerateAvailable
    \/ ValidateData

SpecValidate == InitValidate /\ [][NextValidate]_vars

(***************************************************************************)
(* Specification of the four scripts that take a dry-run argument, run one *)
(* after another on one data directory: the directory holds either the    *)
(* lot files or plots.csv and the image folders                            *)
(***************************************************************************)
\* plots.csv lists an image that is not on disk; the folder holds an image
\* that is not listed and one that lacks its dash
PlotsForDryRun ==
    { << Plot(NYC4, NYC4_2F), Plot(UTC4, <<>>) >>,
      << Plot(NYC4, join(<<NYC4_1, NYC4_1M>>)), Plot(UTC4, UTC4_1) >> }
FilesForDryRun ==
    { { <<NewYard, NYC4_1>>, <<NewYard, NYC41M>> },
      { <<NewYard, NYC4_1>>, <<NewYard, NYC4_1M>>, <<UpperTerrace, UTC4_1>> } }

InitDryRun ==
    \/ /\ lots_csv \in LotsWithBadColumns
       /\ occupants_csv = OccupantPool
       /\ available_csv \in InitialAvailable
       /\ lots_backup = NoFile
       /\ pc = "idle" /\ dry_run = TRUE /\ lots = <<>> /\ changes = <<>>
       /\ runs = 0 /\ first_run = NoRun /\ validation = NotValidated
       /\ IdleImages /\ IdleNames /\ IdleSort /\ IdleVeterans
    \/ /\ plots_csv \in PlotsForDryRun
       /\ image_files \in FilesForDryRun
       /\ image_folders = AllFolders
       /\ plots_backup = NoFile
       /\ img_pc = "idle" /\ argv = {} /\ plot_rows = <<>> /\ fixes = NoFixes
       /\ new_images = <<>>
       /\ report = NoReport /\ run_log = <<>>
       /\ IdleLots /\ IdleNames /\ IdleSort /\ IdleVeterans

NextDryRun ==
    \/ \E d \in BOOLEAN : Analyse(d)
    \/ WriteLots
    \/ GenerateAvailable
    \/ \E flags \in {{}, {"--dry-run"}} : CleanupRead(flags)
    \/ CleanupBackup
    \/ CleanupWrite
    \/ \E flags \in {{}, {"--apply"}} : MatchFind(flags)
    \/ MatchRename
    \/ MatchWrite
    \/ \E flags \in {{}, {"--dry-run"}} : UpdateScan(flags)
    \/ UpdateRead
    \/ UpdateBackup
    \/ UpdateWrite

SpecDryRun == InitDryRun /\ [][NextDryRun]_vars

(***************************************************************************)
(* Properties of fix_lot_status (specification Spec)                       *)
(***************************************************************************)
\* the decision list of the status contract, on integers
ReferenceStatus(lot_id, purchased, remaining, live) ==
    IF lot_id \in {"OYK1-L1", "UTB25-L1"} THEN "Not Available"
    ELSE IF purchased = 0 THEN "Available"
    ELSE IF live = 0 THEN "Unoccupied"
    ELSE IF remaining > 0 THEN "Partially Occupied"
    ELSE "Fully Occupied"

\* occupants of a lot in occupants.csv whose status is not Reserved
LiveOccupants(lot_id) ==
    Cardinality({i \in DOMAIN occupants_csv :
                    /\ occupants_csv[i].lot_id = lot_id
                    /\ occupants_csv[i].status \in {"Occupant", "Cremation", "Vault"}})

\* the number a rights field stands for, 0 for a column the file lacks
RightsOf(text) == IF text = NoColumn THEN 0 ELSE IntOfDigits(text)

ReferenceOf(lot) ==
    ReferenceStatus(lot.lot_id, RightsOf(lot.purchased_rights),
                    RightsOf(lot.remaining_rights), LiveOccupants(lot.lot_id))

IsReservedRow(o) == o.status = "Reserved"
WithoutReserved(occs) == Select(occs, {i \in DOMAIN occs : ~IsReservedRow(occs[i])})

\* C1: after the analysis every lot carries the status the decision list
\* gives (override, then purchased_rights = 0, then no live occupant, then
\* remaining_rights > 0, else Fully Occupied); an override lot that was never
\* purchased is Not Available, an unpurchased lot is Available whatever its
\* occupants, and Reserved rows added to or removed from occupants.csv leave
\* every status as it is.
C1_StatusDecisionList ==
    lots # <<>> =>
        \A i \in DOMAIN lots :
            /\ lots[i].status = ReferenceOf(lots[i])
            /\ (lots[i].lot_id \in {"OYK1-L1", "UTB25-L1"}
                    /\ RightsOf(lots[i].purchased_rights) = 0)
                => lots[i].status = "Not Available"
            /\ (lots[i].lot_id \notin {"OYK1-L1", "UTB25-L1"}
                    /\ RightsOf(lots[i].purchased_rights) = 0)
                => lots[i].status = "Available"
            /\ AnalysedLots(lots, WithoutReserved(occupants_csv))[i].status
                   = lots[i].status
            /\ AnalysedLots(lots, occupants_csv
                   \o <<Occupant(lots[i].lot_id, "Reserved")>>)[i].status
                   = lots[i].status

\* an analysed run in which the override lot was never purchased, an
\* unpurchased lot has a live occupant, and a purchased lot has none but a
\* Reserved row
C1_Witness ==
    /\ lots # <<>>
    /\ lots[1].purchased_rights = <<"0">> /\ lots[1].status = "Not Available"
    /\ lots[3].purchased_rights = <<"0">> /\ LiveOccupants(lots[3].lot_id) = 1
    /\ lots[3].status = "Available"
    /\ lots[4].status = "Partially Occupied"
    /\ \E i \in DOMAIN occupants_csv : IsReservedRow(occupants_csv[i])

\* the lot numbers a lots_available cell lists, as integers
RECURSIVE ListedNumbers(_)
ListedNumbers(text) ==
    IF text = <<>> THEN <<>>
    ELSE IF ~Contains(text, ",") THEN <<IntOfDigits(text)>>
    ELSE LET c == CHOOSE i \in DOMAIN text :
                      text[i] = "," /\ \A j \in 1..(i - 1) : text[j] # ","
         IN  <<IntOfDigits(SubSeq(text, 1, c - 1))>>
                 \o ListedNumbers(SubSeq(text, c + 1, Len(text)))

\* the lots of lots.csv in a plot whose status by the decision list is Available
AvailableLotsOf(plot) ==
    {i \in DOMAIN lots_csv :
        lots_csv[i].plot_id = plot /\ ReferenceOf(lots_csv[i]) = "Available"}

\* C2: after a completed apply run available_lots.csv has exactly one row
\* for each plot with a lot whose recomputed status is Available, the row
\* lists exactly the numbers of those lots in ascending numeric order, and
\* nothing else is in the file, whatever it held before.
C2_AvailableRegenerated ==
    (pc = "done" /\ ~dry_run) =>
        LET plots == {lots_csv[i].plot_id : i \in
                        {j \in DOMAIN lots_csv : ReferenceOf(lots_csv[j]) = "Available"}}
        IN  /\ {available_csv[k].plot_id : k \in DOMAIN available_csv} = plots
            /\ Len(available_csv) = Cardinality(plots)
            /\ \A k \in DOMAIN available_csv :
                 LET nums == ListedNumbers(available_csv[k].lots_available)
                     want == AvailableLotsOf(available_csv[k].plot_id)
                 IN  /\ \A a, b \in DOMAIN nums : a < b => nums[a] <= nums[b]
                     /\ Len(nums) = Cardinality(want)
                     /\ {nums[a] : a \in DOMAIN nums}
                            = {IntOfDigits(lots_csv[i].lot_number) : i \in want}

\* a completed apply run that found a stale file (plots CYA1 and ITC9, lot 7)
\* and left the rows OYK1 and CYA1 with lots 1 and 2
C2_Witness ==
    /\ pc = "done" /\ ~dry_run
    /\ first_run.applies = 1
    /\ Len(first_run.old_available) = 2
    /\ Len(available_csv) = 2
    /\ available_csv[1].plot_id = CYA1
    /\ available_csv[1].lots_available = <<"1", ",", "2">>
    /\ available_csv[2].plot_id = OYK1

\* C3: an apply run that follows a completed apply run on the same data
\* records no status change and leaves lots.csv and available_lots.csv with
\* the content the first run gave them.
C3_SecondRunChangesNothing ==
    (pc = "done" /\ ~dry_run /\ first_run.applies >= 2) =>
        /\ changes = <<>>
        /\ lots_csv = first_run.lots
        /\ available_csv = first_run.available

\* a second apply run completed after a first one that changed statuses
C3_Witness ==
    /\ pc = "done" /\ ~dry_run
    /\ first_run.applies = 2
    /\ first_run.changed >= 2
    /\ changes = <<>>

\* a rights field of lot i of the file is a text int() does not accept (the
\* empty text included); the column is missing from the file
Malformed(ls) ==
    \E i \in DOMAIN ls : \E v \in {ls[i].purchased_rights, ls[i].remaining_rights} :
        v # NoColumn /\ ~IsIntText(v)
ColumnMissing(ls) ==
    \E i \in DOMAIN ls : NoColumn \in {ls[i].purchased_rights, ls[i].remaining_rights}

\* C15 as stated: a run that starts on a lots.csv with a rights value that is
\* absent or not an integer fails and modifies neither lots.csv nor
\* available_lots.csv
C15_AbsentOrNonIntegerFails ==
    [][(runs' = runs + 1 /\ (Malformed(lots_csv) \/ ColumnMissing(lots_csv))) =>
            /\ pc' = "failed"
            /\ lots_csv' = lots_csv
            /\ available_csv' = available_csv]_vars

\* C15 amended: a run that starts on a lots.csv with a rights value that is
\* present and not an integer (the empty text included) fails and modifies
\* neither file, in apply mode and for an override lot too; a rights column
\* missing from the file is read as 0 and the run goes on: without
\* purchased_rights every lot is Available or Not Available, without
\* remaining_rights no lot is Partially Occupied
C15_NonIntegerFails ==
    [][runs' = runs + 1 =>
            /\ lots_csv' = lots_csv
            /\ available_csv' = available_csv
            /\ pc' = "failed" <=> Malformed(lots_csv)
            /\ pc' # "failed" =>
                    \A i \in DOMAIN lots_csv :
                        /\ lots_csv[i].purchased_rights = NoColumn =>
                                lots'[i].status \in {"Available", "Not Available"}
                        /\ lots_csv[i].remaining_rights = NoColumn =>
                                lots'[i].status # "Partially Occupied"]_vars

\* an apply run has failed on a non-integer value in an override lot
C15_Witness ==
    /\ pc = "failed" /\ ~dry_run
    /\ \E i \in DOMAIN lots_csv :
            /\ lots_csv[i].lot_id \in KEEP_NOT_AVAILABLE
            /\ lots_csv[i].purchased_rights = <<"x">>

\* C16: whenever a step rewrites a data CSV with other content, the
\* '<file>.backup' copy after the step holds the content the file had before
\* it: lots.csv for fix_lot_status, plots.csv for the image scripts
C16_BackupHoldsPreviousContent ==
    [][/\ lots_csv' # lots_csv =>
            lots_backup' = [exists |-> TRUE, rows |-> lots_csv]
       /\ plots_csv' # plots_csv =>
            plots_backup' = [exists |-> TRUE, rows |-> plots_csv]]_vars

(***************************************************************************)
(* Properties of the filename functions (specification SpecNames)          *)
(***************************************************************************)
\* the part of a filename before its last '.', and the part after it
StemOf(fn) == SubSeq(fn, 1, LastDot(fn) - 1)
ExtOf(fn)  == SubSeq(fn, LastDot(fn) + 1, Len(fn))

\* the image-type letter a filename carries right before its extension
TypeLetterOf(fn) ==
    IF LastDot(fn) > 1 /\ fn[LastDot(fn) - 1] \in {"F", "B", "P", "V"}
    THEN <<fn[LastDot(fn) - 1]>>
    ELSE <<>>

\* C4: an accepted filename whose stem ends in one of F, B, P, V is given
\* that letter as image_type, and image_type is empty only when the stem
\* ends in no such letter.
C4_TypeLetterReturned ==
    (parsed.called /\ parsed.result.matched) =>
        parsed.result.image_type = TypeLetterOf(filename)

FirstDash(fn) ==
    CHOOSE i \in DOMAIN fn : fn[i] = "-" /\ \A j \in 1..(i - 1) : fn[j] # "-"

\* C5 as stated: yard_code is the first two letters of the filename and
\* plot_id the text before the '-', as they are written.
C5_FieldsAsWritten ==
    (parsed.called /\ parsed.result.matched) =>
        /\ parsed.result.yard_code = SubSeq(filename, 1, 2)
        /\ parsed.result.plot_id = SubSeq(filename, 1, FirstDash(filename) - 1)
        /\ parsed.result.lot_number =
             IntOfDigits(SubSeq(filename, FirstDash(filename) + 1,
                 FirstDash(filename) + DigitRun(filename, FirstDash(filename) + 1)))

\* C5 (amended): for every accepted filename yard_code is its first two
\* letters in upper case, plot_id is the text before the '-' in upper case
\* (the yard code followed by the plot suffix), and lot_number is the value
\* of the digit run directly after the '-'; the letters after the lot
\* number change neither plot nor lot.
C5_FieldsUpperCased ==
    (parsed.called /\ parsed.result.matched) =>
        /\ parsed.result.yard_code = upper(SubSeq(filename, 1, 2))
        /\ parsed.result.plot_id = upper(SubSeq(filename, 1, FirstDash(filename) - 1))
        /\ parsed.result.plot_id =
             parsed.result.yard_code \o upper(SubSeq(filename, 3, FirstDash(filename) - 1))
        /\ parsed.result.lot_number =
             IntOfDigits(SubSeq(filename, FirstDash(filename) + 1,
                 FirstDash(filename) + DigitRun(filename, FirstDash(filename) + 1)))

\* "nyc12-12ab.jpeg" parsed: plot NYC12, lot 12
C5_Witness ==
    /\ parsed.called /\ parsed.result.matched
    /\ SubSeq(filename, 1, 9) = <<"n", "y", "c", "1", "2", "-", "1", "2", "a">>
    /\ parsed.result.plot_id = <<"N", "Y", "C", "1", "2">>
    /\ parsed.result.lot_number = 12

IsLetter(c) == isupper(c) \/ islower(c)

\* fn has the canonical form: two letters, an optional letter, digits, '-',
\* digits, any number of disambiguation letters, an optional type letter,
\* then .jpg or .jpeg in any case. With strict, the leading letters are
\* upper case, the disambiguation letters lower case and the type letter one
\* of F, B, P, V as written; without, every letter is taken in either case.
HasForm(fn, strict) ==
    /\ Contains(fn, "-")
    /\ \E o \in 0..1, d2 \in 1..Len(fn), t \in 0..1, e \in 4..5 :
        LET p  == FirstDash(fn)              \* the '-'
            d1 == p - 3 - o                  \* digits of the plot suffix
            k  == Len(fn) - p - d2 - t - e   \* disambiguation letters
        IN
        /\ d1 >= 1 /\ k >= 0
        /\ \A i \in 1..(2 + o) : IF strict THEN isupper(fn[i]) ELSE IsLetter(fn[i])
        /\ \A i \in (3 + o)..(p - 1) : isdigit(fn[i])
        /\ \A i \in (p + 1)..(p + d2) : isdigit(fn[i])
        /\ \A i \in (p + d2 + 1)..(p + d2 + k) :
               IF strict THEN islower(fn[i]) ELSE IsLetter(fn[i])
        /\ t = 1 => IF strict THEN fn[p + d2 + k + 1] \in {"F", "B", "P", "V"}
                    ELSE upperChar(fn[p + d2 + k + 1]) \in {"F", "B", "P", "V"}
        /\ lower(SubSeq(fn, Len(fn) - e + 1, Len(fn)))
               \in {<<".", "j", "p", "g">>, <<".", "j", "p", "e", "g">>}

\* C6 as stated: a parse result exactly for the canonical form in which only
\* the extension is case-insensitive.
C6_CanonicalCaseSensitive ==
    parsed.called =>
        (parsed.result.matched <=> HasForm(filename, TRUE))

\* C6 (amended): a parse result exactly for the strings of the canonical
\* form with every letter matched in either case - two letters, an optional
\* letter, digits, '-', digits, any number of disambiguation letters, an
\* optional letter of F, B, P, V, then .jpg or .jpeg - and no-match, without
\* raising, for every other string.
C6_CanonicalAnyCase ==
    parsed.called =>
        /\ parsed.result.matched <=> HasForm(filename, FALSE)
        /\ ~parsed.result.matched => parsed.result = None

\* "NYC4-1M.JPG" is accepted although M is an upper-case disambiguation letter
C6_Witness ==
    /\ parsed.called /\ parsed.result.matched
    /\ filename = <<"N", "Y", "C", "4", "-", "1", "M", ".", "J", "P", "G">>

\* C9: a filename with an extension whose stem has no '-' and starts with
\* three upper-case letters and a digit run of two or more digits is flagged
\* "Missing dash after plot ID", and the suggestion is the filename with one
\* '-' put before the last digit of that run, all else as it was.
C9_MissingDashSuggestion ==
    (/\ naming.called
     /\ LastDot(filename) > 0
     /\ ~Contains(StemOf(filename), "-")
     /\ Len(StemOf(filename)) >= 5
     /\ \A i \in 1..3 : isupper(filename[i])
     /\ isdigit(filename[4]) /\ isdigit(filename[5]))
    => LET q == 3 + DigitRun(StemOf(filename), 4) IN
       /\ ~naming.raised
       /\ \E i \in DOMAIN naming.errors : naming.errors[i] = "Missing dash after plot ID"
       /\ naming.suggested =
            SubSeq(filename, 1, q - 1) \o <<"-">> \o SubSeq(filename, q, Len(filename))

\* "NYC41M.Jpg": both the extension and the missing dash are flagged and the
\* suggestion is "NYC4-1M.Jpg"
C9_Witness ==
    /\ naming.called
    /\ filename = <<"N", "Y", "C", "4", "1", "M", ".", "J", "p", "g">>
    /\ naming.errors = <<"Mixed case extension", "Missing dash after plot ID">>
    /\ naming.suggested = <<"N", "Y", "C", "4", "-", "1", "M", ".", "J", "p", "g">>

HasUpperAndLower(s) ==
    /\ \E i \in DOMAIN s : isupper(s[i])
    /\ \E i \in DOMAIN s : islower(s[i])

FlaggedMixedCase ==
    \E i \in DOMAIN naming.errors : naming.errors[i] = "Mixed case extension"

\* C10 as stated: a filename with an image extension is flagged exactly when
\* the extension mixes upper and lower case.
C10_AnyMixedCaseExtension ==
    (naming.called /\ ~naming.raised /\ lower(ExtOf(filename)) \in ImageExtensions) =>
        (FlaggedMixedCase <=> HasUpperAndLower(ExtOf(filename)))

\* C10 (amended): flagged exactly when the extension is a mixed-case spelling
\* of jpg; an all-upper or all-lower extension is never flagged, and neither
\* is a mixed-case spelling of another extension such as jpeg or png.
C10_MixedCaseJpgOnly ==
    (naming.called /\ ~naming.raised) =>
        /\ FlaggedMixedCase <=>
               (lower(ExtOf(filename)) = <<"j", "p", "g">>
                    /\ HasUpperAndLower(ExtOf(filename)))
        /\ ~HasUpperAndLower(ExtOf(filename)) => ~FlaggedMixedCase

\* a ".Jpg" file flagged, with the ".JPG" suggestion
C10_Witness ==
    /\ naming.called /\ FlaggedMixedCase
    /\ ExtOf(filename) = <<"J", "p", "g">>
    /\ naming.errors = <<"Mixed case extension">>
    /\ ExtOf(naming.suggested) = <<"J", "P", "G">>

Flagged(e) == \E i \in DOMAIN naming.errors : naming.errors[i] = e

NamingErrors ==
    {"Extra dot before dash", "Mixed case extension", "Missing dash after plot ID"}

\* the filename with one fix applied and nothing else changed
OneFix(e, fn) ==
    CASE e = "Extra dot before dash" -> ReplaceDotDash(fn)
      [] e = "Mixed case extension"  -> StemOf(fn) \o <<".", "J", "P", "G">>
      [] e = "Missing dash after plot ID" ->
            LET q == 3 + DigitRun(StemOf(fn), 4) IN
            SubSeq(fn, 1, q - 1) \o <<"-">> \o SubSeq(fn, q, Len(fn))

\* the defect an error names is (still) there in a filename
HasDefect(e, fn) ==
    CASE e = "Extra dot before dash" -> HasDotDash(fn)
      [] e = "Mixed case extension"  ->
            lower(ExtOf(fn)) = <<"j", "p", "g">> /\ HasUpperAndLower(ExtOf(fn))
      [] e = "Missing dash after plot ID" ->
            MissingDashMatch(StemOf(fn)) > 0 /\ ~Contains(StemOf(fn), "-")

\* C11: when detect_naming_errors raises one flag or more, the suggested
\* filename is the original with exactly one of the three fixes applied: it
\* is the one-fix result of a flagged error, and the defect of every other
\* flagged error is still in it, so no two fixes are ever both present.
C11_SuggestionAppliesOneFix ==
    (naming.called /\ naming.has_error) =>
        \E e \in NamingErrors :
            /\ Flagged(e)
            /\ naming.suggested = OneFix(e, filename)
            /\ \A o \in NamingErrors \ {e} :
                   Flagged(o) => HasDefect(o, naming.suggested)

\* "NYC4.-1.Jpg": the dot and the extension are both flagged, and the
\* suggestion "NYC4.-1.JPG" has the extension fix alone
C11_Witness ==
    /\ naming.called
    /\ filename = <<"N", "Y", "C", "4", ".", "-", "1", ".", "J", "p", "g">>
    /\ naming.errors = <<"Extra dot before dash", "Mixed case extension">>
    /\ naming.suggested = <<"N", "Y", "C", "4", ".", "-", "1", ".", "J", "P", "G">>

\* C20 as stated: extract_plot_from_filename gives the plot_id of the
\* canonical parser for a filename the parser accepts, and no plot for a
\* filename it rejects
C20_ExtractAgreesWithParser ==
    (parsed.called /\ suggested.called) =>
        suggested.result = IF parsed.result.matched THEN parsed.result.plot_id
                           ELSE <<>>

\* C20 amended: for a filename the canonical parser accepts,
\* extract_plot_from_filename gives the parser's plot_id when the plot part
\* has a letter and no plot when it has none; for a filename the parser
\* rejects it gives no plot or the three letters and the digits the
\* upper-cased filename begins with
C20_ExtractAgreesOnLetterPlots ==
    (parsed.called /\ suggested.called) =>
        IF parsed.result.matched
        THEN suggested.result = IF isupper(parsed.result.plot_id[3])
                                THEN parsed.result.plot_id
                                ELSE <<>>
        ELSE \/ suggested.result = <<>>
             \/ LET n == Len(suggested.result) IN
                    /\ n >= 4 /\ n <= Len(filename)
                    /\ suggested.result = upper(SubSeq(filename, 1, n))
                    /\ \A i \in 1..3 : isupper(suggested.result[i])
                    /\ \A i \in 4..n : isdigit(suggested.result[i])

\* an accepted filename whose plot part has no letter: the parser gives
\* plot NY4, the matcher no plot
C20_Witness ==
    /\ filename = <<"N", "Y", "4", "-", "1", ".", "j", "p", "g">>
    /\ parsed.called /\ parsed.result.matched
    /\ parsed.result.plot_id = <<"N", "Y", "4">>
    /\ suggested.called /\ suggested.result = <<>>

(***************************************************************************)
(* Properties of sort_images (specification SpecSort)                      *)
(***************************************************************************)
Parses(fn) == parse_new_format_filename(fn).matched
LotOf(fn)  == parse_new_format_filename(fn).lot_number

TypeRank(fn) ==
    CASE TypeLetterOf(fn) = <<"F">> -> 1
      [] TypeLetterOf(fn) = <<"B">> -> 2
      [] TypeLetterOf(fn) = <<"P">> -> 3
      [] TypeLetterOf(fn) = <<"V">> -> 4
      [] OTHER -> 5

IsPermutation(a, b) ==
    /\ Len(a) = Len(b)
    /\ \A x \in {a[i] : i \in DOMAIN a} \cup {b[i] : i \in DOMAIN b} :
         Cardinality({i \in DOMAIN a : a[i] = x})
             = Cardinality({i \in DOMAIN b : b[i] = x})

\* C7: a list of filenames that all parse comes back as a permutation in
\* descending lot order, and within one lot in the type order
\* F < B < P < V < untyped.
C7_LotThenTypeOrder ==
    (sorted_images.called /\ \A i \in DOMAIN image_list : Parses(image_list[i])) =>
        LET out == sorted_images.result IN
        /\ IsPermutation(out, image_list)
        /\ \A i, j \in DOMAIN out :
             i < j => \/ LotOf(out[i]) > LotOf(out[j])
                      \/ /\ LotOf(out[i]) = LotOf(out[j])
                         /\ TypeRank(out[i]) <= TypeRank(out[j])

IsUnparsed(fn) == ~Parses(fn)
UnparsedOf(l) == Select(l, {i \in DOMAIN l : IsUnparsed(l[i])})

\* C8: in the output no unparsed filename comes before a parsed one, a
\* parsed filename of lot 0 included, and the unparsed filenames are in
\* their input order.
C8_UnparsedLastAndStable ==
    sorted_images.called =>
        LET out == sorted_images.result IN
        /\ IsPermutation(out, image_list)
        /\ \A i, j \in DOMAIN out : (i < j /\ IsUnparsed(out[i])) => IsUnparsed(out[j])
        /\ UnparsedOf(out) = UnparsedOf(image_list)

\* two different unparsed names ahead of a lot-0 image in the input
C8_Witness ==
    /\ sorted_images.called
    /\ Len(image_list) = 3
    /\ IsUnparsed(image_list[1]) /\ IsUnparsed(image_list[2])
    /\ image_list[1] # image_list[2]
    /\ Parses(image_list[3]) /\ LotOf(image_list[3]) = 0
    /\ sorted_images.result = <<image_list[3], image_list[1], image_list[2]>>

(***************************************************************************)
(* Properties of cleanup_missing_images and verify_images (SpecMissing)    *)
(***************************************************************************)
RunsOf(script) == { i \in DOMAIN run_log : run_log[i].script = script }

\* C12: a run of cleanup_missing_images or of match_orphaned_images invoked
\* with no flag renames no image file and leaves plots.csv unchanged.
C12_NoFlagChangesNothing ==
    \A i \in RunsOf("cleanup_missing_images") \cup RunsOf("match_orphaned_images") :
        run_log[i].argv = {} =>
            /\ run_log[i].plots_after = run_log[i].plots_before
            /\ run_log[i].files_after = run_log[i].files_before

\* C12 (amended): match_orphaned_images invoked with no flag renames no
\* image and leaves plots.csv unchanged; cleanup_missing_images leaves
\* plots.csv unchanged when it is invoked with --dry-run, and never renames
\* or removes an image file.
C12_AppliedOnlyWhenAsked ==
    /\ \A i \in RunsOf("match_orphaned_images") :
           run_log[i].argv = {} =>
               /\ run_log[i].plots_after = run_log[i].plots_before
               /\ run_log[i].files_after = run_log[i].files_before
    /\ \A i \in RunsOf("cleanup_missing_images") :
           /\ run_log[i].files_after = run_log[i].files_before
           /\ "--dry-run" \in run_log[i].argv =>
                  run_log[i].plots_after = run_log[i].plots_before

\* a run of the matcher without a flag that lists a rename and a plot
\* update, and a dry run of the cleanup that lists a plot to modify
C12_Witness ==
    /\ img_pc = "idle"
    /\ \E i \in RunsOf("match_orphaned_images") :
           /\ run_log[i].argv = {}
           /\ run_log[i].listed.files_to_rename # <<>>
           /\ DOMAIN run_log[i].listed.plots_to_update # {}
    /\ \E i \in RunsOf("cleanup_missing_images") :
           /\ run_log[i].argv = {"--dry-run"}
           /\ run_log[i].listed # {}

KnownYardCodes == {<<"C", "Y">>, <<"I", "T">>, <<"N", "Y">>, <<"O", "Y">>, <<"U", "T">>}

\* C13: an image whose two-character prefix is not one of CY, IT, NY, OY, UT
\* is never looked up in the folder of one of the five known yards.
C13_UnknownPrefixNotDefaulted ==
    \A i \in RunsOf("cleanup_missing_images") :
        \A path \in ProbedByCleanup(run_log[i].plots_before) :
            Prefix(path[2]) \in KnownYardCodes

\* the rows of plots.csv whose plot_id starts with a known yard code
KnownPlots(rs) ==
    Select(rs, { i \in DOMAIN rs : Prefix(rs[i].plot_id) \in KnownYardCodes
                                     /\ Len(rs[i].plot_id) >= 2 })

\* C14: every plot whose prefix is not a known yard code is recorded as an
\* unknown-section finding and adds nothing to plots_with_images, to
\* total_image_refs or to any entry of the per-section summary.
C14_UnknownPrefixNotCounted ==
    \A i \in RunsOf("verify_images") :
        LET rs == run_log[i].plots_before
            r  == run_log[i].listed
        IN  /\ \A k \in DOMAIN rs :
                 Prefix(rs[k].plot_id) \notin KnownYardCodes =>
                     \E u \in DOMAIN r.unknown_sections :
                         r.unknown_sections[u][1] = rs[k].plot_id
            /\ r.plots_with_images = Cardinality(WithImages(KnownPlots(rs)))
            /\ r.total_image_refs = ImageCount(KnownPlots(rs))
            /\ DOMAIN r.section_stats \subseteq KnownYardCodes

(***************************************************************************)
(* Properties of match_orphaned_images (SpecMatch)                         *)
(***************************************************************************)
\* the names a run of the matcher entered into plots.csv
AddedBy(entry) ==
    UNION { { entry.listed.plots_to_update[p][k] :
                k \in DOMAIN entry.listed.plots_to_update[p] } :
            p \in DOMAIN entry.listed.plots_to_update }

\* C19: when a run of match_orphaned_images follows an apply run of it, no
\* image the apply run added to a plot is classified as orphaned again, so
\* the second run lists no rename and no plot update for it.
C19_AddedImagesNoLongerOrphaned ==
    \A i \in RunsOf("match_orphaned_images") :
        (/\ i + 1 \in RunsOf("match_orphaned_images")
         /\ run_log[i].argv = {"--apply"})
        => \A f \in run_log[i + 1].listed.orphaned : f[2] \notin AddedBy(run_log[i])

(***************************************************************************)
(* Properties of fix_veteran_suffixes (specification SpecVeterans)         *)
(***************************************************************************)
\* C17: a run of fix_veteran_suffixes on the veterans.csv an earlier run
\* wrote leaves the header unchanged, with exactly one Suffix column, and
\* leaves every record's Middle Name/Initial and Suffix unchanged
C17_SecondRunChangesNothing ==
    [][(vet_runs >= 1 /\ vet_runs' = vet_runs + 1
            /\ ~SuffixRaises(veterans_csv.fieldnames)) =>
          LET old == veterans_csv
              new == veterans_csv'
          IN  /\ new.fieldnames = old.fieldnames
              /\ Cardinality({i \in DOMAIN new.fieldnames :
                                  new.fieldnames[i] = "Suffix"}) = 1
              /\ \A r \in DOMAIN old.rows : \A name \in {MiddleName, "Suffix"} :
                      CellOf(new.fieldnames, new.rows[r], name)
                          = CellOf(old.fieldnames, old.rows[r], name)]_vars

(***************************************************************************)
(* Properties of update_plot_images (specification SpecUpdate)             *)
(***************************************************************************)
\* C18: a run of update_plot_images that follows a non-dry run on the same
\* image files reports 0 plots modified and leaves every monument_images
\* value as the first run wrote it, whatever the image lists were before the
\* first run and in whatever order the folders are listed
C18_SecondUpdateChangesNothing ==
    img_pc = "idle" =>
        \A i \in 1..(Len(run_log) - 1) :
            (/\ run_log[i].script = "update_plot_images"
             /\ run_log[i + 1].script = "update_plot_images"
             /\ ~UpdateDryRun(run_log[i].argv)) =>
                /\ run_log[i + 1].listed.updates_made = 0
                /\ run_log[i + 1].plots_before = run_log[i].plots_after
                /\ run_log[i + 1].plots_after = run_log[i].plots_after

\* two non-dry runs have ended; the first found a list with uneven spacing
\* and a repeated name, added an image to it and changed both plots
C18_Witness ==
    /\ img_pc = "idle" /\ Len(run_log) = 2
    /\ \A i \in 1..2 : run_log[i].script = "update_plot_images" /\ run_log[i].argv = {}
    /\ run_log[1].plots_before[1].monument_images
           = <<" ">> \o NYC4_1 \o <<" ", ";", " ", " ">> \o NYC4_1 \o <<";">>
    /\ run_log[1].listed.updates_made = 2
    /\ run_log[1].plots_after[1].monument_images = join(<<NYC4_2F, NYC4_1, NYC4_1, NYC4_1B>>)
    /\ run_log[2].listed.updates_made = 0

\* the number of names of a list that equal a name up to case
CountOf(l, name) == Cardinality({k \in DOMAIN l : lower(l[k]) = lower(name)})

\* the runs of update_plot_images that wrote plots.csv
UpdateRuns ==
    { r \in RunsOf("update_plot_images") :
        /\ ~UpdateDryRun(run_log[r].argv)
        /\ DOMAIN run_log[r].listed.new_images # {}
        /\ r < Len(run_log) \/ img_pc = "idle" }

\* C25: after a run that wrote plots.csv, every filename that was in a
\* plot's list is still in it, a scanned image of the plot that was in the
\* list (up to case) is there as often as before, one that was not is there
\* exactly once (up to case), nothing else was added, and the field of a
\* plot that has no scanned image is as it was
C25_PreservesAndAdds ==
    \A r \in UpdateRuns :
        /\ Len(run_log[r].plots_after) = Len(run_log[r].plots_before)
        /\ \A i \in DOMAIN run_log[r].plots_before :
            LET row    == run_log[r].plots_before[i]
                old    == parse_images(row.monument_images)
                new    == parse_images(run_log[r].plots_after[i].monument_images)
                found  == run_log[r].listed.new_images
            IN  /\ run_log[r].plots_after[i].plot_id = row.plot_id
                /\ row.plot_id \notin DOMAIN found =>
                       run_log[r].plots_after[i] = row
                /\ row.plot_id \in DOMAIN found =>
                       /\ \A k \in DOMAIN old :
                              /\ \E m \in DOMAIN new : new[m] = old[k]
                              /\ CountOf(new, old[k]) = CountOf(old, old[k])
                       /\ \A k \in DOMAIN found[row.plot_id] :
                              CountOf(new, found[row.plot_id][k])
                                  = IF CountOf(old, found[row.plot_id][k]) = 0 THEN 1
                                    ELSE CountOf(old, found[row.plot_id][k])
                       /\ \A m \in DOMAIN new :
                              \/ \E k \in DOMAIN old : old[k] = new[m]
                              \/ \E k \in DOMAIN found[row.plot_id] :
                                     found[row.plot_id][k] = new[m]

\* a run has written plots.csv: the first plot listed a name in lower case
\* and an old-format name, the scan found a new name and then the listed
\* one in upper case, and the second plot, with an image listed, had no
\* image scanned
C25_Witness ==
    /\ img_pc = "idle" /\ Len(run_log) = 1 /\ UpdateRuns = {1}
    /\ run_log[1].plots_before[1].monument_images
           = NYC4_1b \o <<";", " ">> \o NYC4_old
    /\ run_log[1].listed.new_images
           = (NYC4 :> <<NYC4_1B, NYC4_1>>)
    /\ run_log[1].plots_before[2].monument_images = UTC4_1
    /\ LET new == parse_images(run_log[1].plots_after[1].monument_images)
       IN  /\ Len(new) = 3
           /\ \E m \in DOMAIN new : new[m] = NYC4_1B
           /\ \A m \in DOMAIN new : new[m] # NYC4_1

(***************************************************************************)
(* Claims about what a run of fix_lot_status leaves in its files           *)
(***************************************************************************)
\* C21: the step of an apply run that rewrites lots.csv leaves the file with
\* the same number of rows in the same order and with the same columns,
\* every field other than status as it was, and a lot whose computed status
\* equals its current status exactly as it was
C21_ApplyPreservesOtherFields ==
    [][pc = "write_lots" =>
            /\ Len(lots_csv') = Len(lots_csv)
            /\ \A i \in DOMAIN lots_csv \cap DOMAIN lots_csv' :
                    /\ DOMAIN lots_csv'[i] = DOMAIN lots_csv[i]
                    /\ \A f \in DOMAIN lots_csv[i] \ {"status"} :
                            lots_csv'[i][f] = lots_csv[i][f]
                    /\ ReferenceOf(lots_csv[i]) = lots_csv[i].status
                            => lots_csv'[i] = lots_csv[i]]_vars

\* a lot outside the override set with purchased_rights > 0 and
\* remaining_rights = 0, both written in the file
NoRightsRemain(lot) ==
    /\ lot.lot_id \notin KEEP_NOT_AVAILABLE
    /\ IsIntText(lot.purchased_rights) /\ IntOfDigits(lot.purchased_rights) > 0
    /\ IsIntText(lot.remaining_rights) /\ IntOfDigits(lot.remaining_rights) = 0

ScriptOfStep ==
    IF img_pc \in {"cleanup_backup", "cleanup_write"} THEN "cleanup_missing_images"
    ELSE IF img_pc \in {"match_rename", "match_write"} THEN "match_orphaned_images"
    ELSE IF img_pc \in {"update_read", "update_backup", "update_write"}
         THEN "update_plot_images"
    ELSE IF run_log' # run_log THEN run_log'[Len(run_log')].script
    ELSE "cleanup_missing_images"

\* the step belongs to a run in dry-run mode: fix_lot_status called with
\* dry_run = True, cleanup_missing_images or update_plot_images run with
\* --dry-run, match_orphaned_images run without --apply
DryRunStep ==
    \/ lotVars' # lotVars /\ dry_run'
    \/ /\ imgVars' # imgVars
       /\ IF ScriptOfStep = "match_orphaned_images" THEN "--apply" \notin argv'
          ELSE "--dry-run" \in argv'

\* C22: no step of a run in dry-run mode changes a CSV file, creates or
\* changes a backup file, or renames an image, whatever the run computes
\* and reports
C22_DryRunChangesNothing ==
    [][DryRunStep => UNCHANGED <<lots_csv, available_csv, lots_backup, plots_csv,
                                 plots_backup, image_files>>]_vars

\* a dry run of match_orphaned_images has listed a rename and a plot to
\* update, and after it a dry run of update_plot_images has counted an update
C22_Witness ==
    /\ img_pc = "idle" /\ Len(run_log) = 2
    /\ run_log[1].script = "match_orphaned_images" /\ run_log[1].argv = {}
    /\ run_log[1].listed.files_to_rename # <<>>
    /\ DOMAIN run_log[1].listed.plots_to_update # {}
    /\ run_log[2].script = "update_plot_images" /\ run_log[2].argv = {"--dry-run"}
    /\ run_log[2].listed.updates_made > 0

(***************************************************************************)
(* Claims about update_cremation_vault_status                              *)
(***************************************************************************)
\* C24: a run changes only rows whose status is Occupant: a row that is
\* Reserved, Cremation or Vault before the run has the same status after
\* it, and every field other than status of every row is as it was
C24_OnlyOccupantsChange ==
    \A r \in DOMAIN status_log :
        /\ Len(status_log[r].after) = Len(status_log[r].before)
        /\ \A i \in DOMAIN status_log[r].before :
               /\ status_log[r].after[i].lot_id = status_log[r].before[i].lot_id
               /\ status_log[r].after[i].name = status_log[r].before[i].name
               /\ status_log[r].before[i].status \in {"Reserved", "Cremation", "Vault"}
                      => status_log[r].after[i].status = status_log[r].before[i].status

(***************************************************************************)
(* Claims about Check 1 of validate_data                                   *)
(***************************************************************************)
\* every lot_number is an integer, and no two lots of a plot have the same
NumbersUnique(ls) ==
    /\ \A i \in DOMAIN ls : IsIntText(ls[i].lot_number)
    /\ \A i, j \in DOMAIN ls :
           (i # j /\ ls[i].plot_id = ls[j].plot_id)
               => IntOfDigits(ls[i].lot_number) # IntOfDigits(ls[j].lot_number)

\* the numbers available_lots.csv lists for a plot, in any of its rows
ListedFor(av, plot) ==
    UNION { { IntOfDigits(strip(SplitCommas(av[j].lots_available)[k])) :
                k \in { m \in DOMAIN SplitCommas(av[j].lots_available) :
                          IsIntText(strip(SplitCommas(av[j].lots_available)[m])) } } :
            j \in { m \in DOMAIN av : av[m].plot_id = plot } }

\* the two files disagree: an Available lot is not listed for its plot, or
\* a listed number is that of a lot that is not Available
Inconsistent(av, ls) ==
    \E i \in DOMAIN ls :
        /\ IsIntText(ls[i].lot_number)
        /\ (ls[i].status = "Available")
               # (IntOfDigits(ls[i].lot_number) \in ListedFor(av, ls[i].plot_id))

\* C26: validate_data run on the files a completed apply run of
\* fix_lot_status left, with lot numbers that are integers and unique within
\* each plot, ends without an error and its Check 1 lists no mismatch
C26_Check1CleanAfterApply ==
    (/\ validation.called /\ pc = "done" /\ ~dry_run
     /\ validation.lots = lots_csv /\ validation.available = available_csv
     /\ NumbersUnique(lots_csv))
        => ~validation.raised /\ validation.mismatches = <<>>

\* validate_data has run after an apply run that changed statuses and
\* replaced a stale available_lots.csv, on a plot with an Available lot and
\* one that is not
C26_Witness ==
    /\ validation.called /\ pc = "done" /\ ~dry_run
    /\ validation.lots = lots_csv /\ validation.available = available_csv
    /\ NumbersUnique(lots_csv)
    /\ first_run.changed > 0 /\ first_run.old_available # available_csv
    /\ \E i, j \in DOMAIN lots_csv :
           /\ lots_csv[i].plot_id = lots_csv[j].plot_id
           /\ lots_csv[i].status = "Available" /\ lots_csv[j].status # "Available"

\* C27: whenever validate_data ends without an error on files in which an
\* Available lot is not listed for its plot (the plot may have no row at
\* all) or a listed number is that of a lot that is not Available, Check 1
\* lists at least one mismatch
C27_Check1Complete ==
    (/\ validation.called /\ ~validation.raised
     /\ Inconsistent(validation.available, validation.lots))
        => validation.mismatches # <<>>

(***************************************************************************)
(* Claims that compare cleanup_missing_images with verify_images           *)
(***************************************************************************)
\* C28: for a run of cleanup_missing_images and a run of verify_images on
\* the same plots.csv and the same image files, and for every plot and
\* every filename of its monument_images list, cleanup keeps the reference
\* if and only if verify_images lists it among the valid images
C28_CleanupAgreesWithVerify ==
    \A i \in RunsOf("cleanup_missing_images") :
        \A j \in RunsOf("verify_images") :
            (/\ run_log[i].plots_before = run_log[j].plots_before
             /\ run_log[i].files_before = run_log[j].files_before)
                => \A k \in DOMAIN run_log[i].plots_before :
                       \A m \in DOMAIN parse_images(run_log[i].plots_before[k].monument_images) :
                           check_image_exists(
                               parse_images(run_log[i].plots_before[k].monument_images)[m],
                               run_log[i].files_before)
                           <=> \E v \in DOMAIN run_log[j].listed.valid_images :
                                   run_log[j].listed.valid_images[v] =
                                       << run_log[i].plots_before[k].plot_id,
                                          parse_images(run_log[i].plots_before[k].monument_images)[m] >>

(***************************************************************************)
(* Claims about the renames of match_orphaned_images                       *)
(***************************************************************************)
FilesIn(files, folder) == { f \in files : f[1] = folder }

\* C29: a run of match_orphaned_images leaves in every yard folder as many
\* image files as it found there: no rename replaces a file that exists or
\* that another rename of the run created
C29_RenamesKeepEveryImage ==
    \A i \in RunsOf("match_orphaned_images") :
        \A folder \in AllFolders :
            Cardinality(FilesIn(run_log[i].files_after, folder))
                = Cardinality(FilesIn(run_log[i].files_before, folder))

(***************************************************************************)
(* Claims about a run of fix_lot_status that stops with an error           *)
(***************************************************************************)
\* lots.csv as the run read it: the in-memory lots with the old status of
\* every entry of the changes list put back
LotsAsRead ==
    [i \in DOMAIN lots |->
        IF \E c \in DOMAIN changes : changes[c].lot_id = lots[i].lot_id
        THEN [lots[i] EXCEPT !.status =
                 changes[CHOOSE c \in DOMAIN changes :
                             changes[c].lot_id = lots[i].lot_id].old_status]
        ELSE lots[i]]

\* C30: when an apply run of fix_lot_status has stopped with an error after
\* its analysis, either lots.csv still holds what the run read (the run
\* writes available_lots.csv last, so that file is then untouched as well),
\* or lots.csv holds the recomputed lots and available_lots.csv the list
\* generated from them
C30_BothFilesOrNeither ==
    (pc = "failed" /\ ~dry_run /\ lots # <<>>)
        => \/ lots_csv = LotsAsRead
           \/ /\ lots_csv = lots
              /\ ~AvailableRaises(lots)
              /\ available_csv = AvailableRows(lots)

=============================================================================
